---- MODULE Spec2Model ----
(***************************************************************************)
(* ETF swap extractor: the N-PORT parser, the filing locator, the SQLite   *)
(* persistence and the per-ticker pipeline with its batch drivers.         *)
(*                                                                         *)
(* Strings are TLA+ strings; their characters are read with SubSeq, so     *)
(* that stripping, lower-casing, substring search and number parsing are   *)
(* computed and not assumed.                                               *)
(***************************************************************************)
EXTENDS Integers, Sequences, FiniteSets, TLC

VARIABLES
    impl,      \* which copy of the extractor class owns the database
    input,     \* arguments of the last direct call of a function under test
    output,    \* its result
    store,     \* rows of table swap_data
    pc,        \* position of the running job in process_ticker
    driver,    \* who called process_ticker: "job" (app.py) or "worker"
    cur,       \* ticker being processed
    filings,   \* list returned by get_historical_filings
    idx,       \* 1-based position in filings of the next filing
    outcomes,  \* per filing of this run, how its fetch ended
    alarm,     \* SIGALRM of the robust worker: "off", "armed", "fired"
    queue,     \* tickers the batch worker has still to attempt
    tally,     \* the worker's counters and lists
    prevRun,   \* the run of process_ticker the worker finished last
    today,     \* the date datetime.now() gives
    threads    \* activations of process_ticker of the drivers without SIGALRM

vars == <<impl, input, output, store, pc, driver, cur, filings, idx,
          outcomes, alarm, queue, tally, prevRun, today, threads>>

---------------------------------------------------------------------------
(* Python values.                                                          *)

\* None, for values that are otherwise strings.
None == "None"

\* A Python float m / 10^e, kept normalised (no trailing zero in m when e > 0).
Flt(m, e) == [t |-> "float", m |-> m, e |-> e]

\* A Python str kept where a number was wanted.
Str(s) == [t |-> "str", s |-> s]

\* None, for values that are otherwise floats or kept strings.
NoneVal == [t |-> "none"]

\* The classes an exception is an instance of.  "Timeout" and "ConnectionError"
\* are those of requests; "JSONDecodeError" is what response.json() raises for a
\* body that is no JSON; "ParseError" is that of xml.etree; "Exception" alone
\* stands for the IndexError, ValueError and ParserError of the locator's loops.
ExceptionBases(exc) ==
    CASE exc = "Timeout" -> {"Timeout", "RequestException", "Exception"}
      [] exc = "ConnectionError" -> {"ConnectionError", "RequestException", "Exception"}
      [] exc = "JSONDecodeError" -> {"JSONDecodeError", "ValueError", "Exception"}
      [] exc = "ParseError" -> {"ParseError", "SyntaxError", "Exception"}
      [] exc = "UnicodeDecodeError" -> {"UnicodeDecodeError", "ValueError", "Exception"}
      [] OTHER -> {exc, "Exception"}

\* Whether one of the except clauses of a try statement catches exc.
Handled(exc, handlers) ==
    \E i \in DOMAIN handlers : handlers[i] \in ExceptionBases(exc)

---------------------------------------------------------------------------
(* Character-level string functions.                                       *)

Char(s, i) == SubSeq(s, i, i)

Digits == <<"0", "1", "2", "3", "4", "5", "6", "7", "8", "9">>

IsDigit(c) == \E d \in 1..10 : Digits[d] = c

DigitVal(c) == (CHOOSE d \in 1..10 : Digits[d] = c) - 1

Upper == "ABCDEFGHIJKLMNOPQRSTUVWXYZ"

LowerAlpha == "abcdefghijklmnopqrstuvwxyz"

\* str.lower() of the upper-case letters
LowerMap == [c \in {Char(Upper, k) : k \in 1..26} |->
                Char(LowerAlpha, CHOOSE k \in 1..26 : Char(Upper, k) = c)]

\* str.lower() of one character.
LowerChar(c) == IF c \in DOMAIN LowerMap THEN LowerMap[c] ELSE c

RECURSIVE Lower(_)
\* str.lower(), character by character (the string is halved to keep the
\* evaluation shallow)
Lower(s) ==
    IF Len(s) = 0 THEN ""
    ELSE IF Len(s) = 1 THEN LowerChar(s)
    ELSE Lower(SubSeq(s, 1, Len(s) \div 2)) \o Lower(SubSeq(s, Len(s) \div 2 + 1, Len(s)))

\* str.upper() of the lower-case letters
UpperMap == [c \in {Char(LowerAlpha, k) : k \in 1..26} |->
                Char(Upper, CHOOSE k \in 1..26 : Char(LowerAlpha, k) = c)]

RECURSIVE UpperCase(_)
\* str.upper(), character by character
UpperCase(s) ==
    IF s = "" THEN ""
    ELSE (IF Char(s, 1) \in DOMAIN UpperMap THEN UpperMap[Char(s, 1)] ELSE Char(s, 1))
         \o UpperCase(SubSeq(s, 2, Len(s)))

RECURSIVE ZFill(_, _)
\* str.zfill(width) of a string without a sign: zeros are put in front of a
\* string shorter than width, and a longer one is left as it is.
ZFill(s, width) == IF Len(s) >= width THEN s ELSE ZFill("0" \o s, width)

\* needle in haystack
Contains(haystack, needle) ==
    \E i \in 1..(Len(haystack) - Len(needle) + 1) :
        SubSeq(haystack, i, i + Len(needle) - 1) = needle

RECURSIVE LStrip(_)
LStrip(s) == IF s /= "" /\ Char(s, 1) = " " THEN LStrip(SubSeq(s, 2, Len(s))) ELSE s

RECURSIVE RStrip(_)
RStrip(s) == IF s /= "" /\ Char(s, Len(s)) = " " THEN RStrip(SubSeq(s, 1, Len(s) - 1)) ELSE s

\* str.strip()
Strip(s) == RStrip(LStrip(s))

RECURSIVE Remove(_, _)
\* re.sub(r'[<chars>]', '', s)
Remove(s, chars) ==
    IF s = "" THEN ""
    ELSE (IF Contains(chars, Char(s, 1)) THEN "" ELSE Char(s, 1))
         \o Remove(SubSeq(s, 2, Len(s)), chars)

RECURSIVE AllDigits(_)
AllDigits(s) == s = "" \/ (IsDigit(Char(s, 1)) /\ AllDigits(SubSeq(s, 2, Len(s))))

RECURSIVE DigitsVal(_)
\* int() of a string of digits, "" counting as 0
DigitsVal(s) ==
    IF s = "" THEN 0
    ELSE 10 * DigitsVal(SubSeq(s, 1, Len(s) - 1)) + DigitVal(Char(s, Len(s)))

RECURSIVE Pow10(_)
Pow10(n) == IF n = 0 THEN 1 ELSE 10 * Pow10(n - 1)

RECURSIVE Normalise(_, _)
\* the one representation of m / 10^e
Normalise(m, e) ==
    IF e > 0 /\ m % 10 = 0 THEN Normalise(m \div 10, e - 1) ELSE Flt(m, e)

\* Position of the decimal point in s, 0 when it has none.
PointAt(s) ==
    IF \E i \in 1..Len(s) : Char(s, i) = "."
    THEN CHOOSE i \in 1..Len(s) : Char(s, i) = "." /\ \A j \in 1..(i - 1) : Char(s, j) /= "."
    ELSE 0

\* Whether float(s) returns: surrounding blanks, an optional sign, digits with at
\* most one point and at least one digit.  (Exponents, inf and nan are outside the
\* alphabet of the texts of this model.)
FloatOk(s) ==
    LET u == Strip(s)
        b == IF u /= "" /\ Char(u, 1) \in {"-", "+"} THEN SubSeq(u, 2, Len(u)) ELSE u
        p == PointAt(b)
        ip == IF p = 0 THEN b ELSE SubSeq(b, 1, p - 1)
        fp == IF p = 0 THEN "" ELSE SubSeq(b, p + 1, Len(b))
    IN  AllDigits(ip) /\ AllDigits(fp) /\ Len(ip) + Len(fp) > 0

\* float(s) where FloatOk(s)
FloatOf(s) ==
    LET u == Strip(s)
        neg == u /= "" /\ Char(u, 1) = "-"
        b == IF u /= "" /\ Char(u, 1) \in {"-", "+"} THEN SubSeq(u, 2, Len(u)) ELSE u
        p == PointAt(b)
        ip == IF p = 0 THEN b ELSE SubSeq(b, 1, p - 1)
        fp == IF p = 0 THEN "" ELSE SubSeq(b, p + 1, Len(b))
        m == DigitsVal(ip) * Pow10(Len(fp)) + DigitsVal(fp)
    IN  Normalise(IF neg THEN 0 - m ELSE m, Len(fp))

---------------------------------------------------------------------------
(* N-PORT documents.  A document is what ET.fromstring makes of the bytes: *)
(* the first seriesId and repPdEndDt elements of the nport namespace, the  *)
(* varInfo section, and the candidate entries in document order.  An entry *)
(* has its tag, its descendant elements with text (namespace, local name,  *)
(* text; "" for no text) and, when it has one, the attributes of           *)
(* derivativeInfo/swapDeriv/floatingPmntDesc.                              *)

NsUri(ns) ==
    CASE ns = "nport" -> "http://www.sec.gov/edgar/nport"
      [] ns = "com"   -> "http://www.sec.gov/edgar/common"
      [] ns = "ncom"  -> "http://www.sec.gov/edgar/nportcommon"
      [] OTHER        -> ""

QName(ns, tag) == IF ns = "" THEN tag ELSE ns \o ":" \o tag

RECURSIVE SerializeChildren(_)
SerializeChildren(cs) ==
    IF cs = <<>> THEN ""
    ELSE "<" \o QName(cs[1].ns, cs[1].tag) \o ">" \o cs[1].text
         \o "</" \o QName(cs[1].ns, cs[1].tag) \o ">" \o SerializeChildren(Tail(cs))

AttrNames == <<"fixedOrFloating", "floatingRtIndex", "floatingRtSpread">>

RECURSIVE SerializeAttrs(_, _)
SerializeAttrs(attrib, k) ==
    IF k > Len(AttrNames) THEN ""
    ELSE (IF AttrNames[k] \in DOMAIN attrib
          THEN " " \o AttrNames[k] \o "=\"" \o attrib[AttrNames[k]] \o "\""
          ELSE "")
         \o SerializeAttrs(attrib, k + 1)

\* The serialization of what is inside the element, without its own tags
tostring_inner(element) ==
    SerializeChildren(element.children)
    \o (IF element.fpd = <<>> THEN ""
        ELSE "<nport:derivativeInfo><nport:swapDeriv><nport:floatingPmntDesc"
             \o SerializeAttrs(element.fpd[1], 1)
             \o "/></nport:swapDeriv></nport:derivativeInfo>")

\* ET.tostring(element, encoding='unicode'): the element's own tag, the namespace
\* declarations, every descendant's tag, attributes and text.
tostring(element) ==
    "<" \o QName(element.ns, element.tag)
    \o " xmlns:nport=\"" \o NsUri("nport") \o "\""
    \o " xmlns:com=\"" \o NsUri("com") \o "\""
    \o " xmlns:ncom=\"" \o NsUri("ncom") \o "\">"
    \o SerializeChildren(element.children)
    \o (IF element.fpd = <<>> THEN ""
        ELSE "<nport:derivativeInfo><nport:swapDeriv><nport:floatingPmntDesc"
             \o SerializeAttrs(element.fpd[1], 1)
             \o "/></nport:swapDeriv></nport:derivativeInfo>")
    \o "</" \o QName(element.ns, element.tag) \o ">"

swap_indicators ==
    <<"swap", "derivative", "deriv", "forward", "future", "option",
      "floatingRtIndex", "fixedOrFloating", "counterparty", "notional">>

\* Mutant of has_swap_indicators: the keyword gate left out.
has_swap_indicators_always(element) == TRUE

\* any(indicator.lower() in element_text.lower() for indicator in swap_indicators)
has_swap_indicators(element) ==
    LET element_text == Lower(tostring(element))
    IN  \E k \in DOMAIN swap_indicators : Contains(element_text, Lower(swap_indicators[k]))

field_mappings ==
    [index_name |-> <<"indexName", "indexTitle", "index", "benchmarkName", "name",
                      "title", "desc", "description", "issuerName", "securityName">>,
     index_identifier |-> <<"indexIdentifier", "indexId", "benchmarkId", "identifier",
                            "id", "securityId", "cusip", "isin">>,
     counterparty_name |-> <<"counterpartyName", "ctrPtyName", "counterparty", "ctrPty",
                             "cptyName", "partyName">>,
     notional_amt |-> <<"notionalAmt", "notional", "notionalAmount", "amt",
                        "principalAmt", "nominalAmt", "faceAmt">>]

\* The namespaces element.find looks in for one tag name, in the order tried: the
\* prefixes '', nport, com, ncom (the empty prefix is the default namespace, nport),
\* then the path without a namespace map.
ns_prefixes == <<"nport", "nport", "com", "ncom", "">>

\* element.find(path): the text of the first descendant of that name, None if none.
FindText(element, ns, field) ==
    LET hits == {i \in DOMAIN element.children :
                    element.children[i].ns = ns /\ element.children[i].tag = field}
    IN  IF hits = {} THEN None
        ELSE element.children[CHOOSE i \in hits : \A j \in hits : i <= j].text

RECURSIVE find_in_prefixes(_, _, _)
find_in_prefixes(element, field, k) ==
    IF k > Len(ns_prefixes) THEN None
    ELSE LET text == FindText(element, ns_prefixes[k], field)
         IN  IF text /= None /\ text /= "" THEN Strip(text)
             ELSE find_in_prefixes(element, field, k + 1)

RECURSIVE find_field_value_later_alias(_, _)
\* find_field_value with the loop over the tag names run from the last to the first
find_field_value_later_alias(field_variations, element) ==
    IF field_variations = <<>> THEN None
    ELSE LET v == find_field_value_later_alias(Tail(field_variations), element)
         IN  IF v /= None THEN v ELSE find_in_prefixes(element, Head(field_variations), 1)

RECURSIVE find_field_value(_, _)
\* find_field_value: the first tag name, and for it the first namespace, whose
\* first element has text; the text is returned stripped.
find_field_value(field_variations, element) ==
    IF field_variations = <<>> THEN None
    ELSE LET v == find_in_prefixes(element, Head(field_variations), 1)
         IN  IF v /= None THEN v ELSE find_field_value(Tail(field_variations), element)

\* re.sub(r'[,$%]', '', value), then float(), the string kept on ValueError
clean_notional(value) ==
    LET clean_value == Remove(value, ",$%")
    IN  IF FloatOk(clean_value) THEN FloatOf(clean_value) ELSE Str(value)

\* float(spread_val), the string kept on ValueError
clean_spread(spread_val) ==
    IF FloatOk(spread_val) THEN FloatOf(spread_val) ELSE Str(spread_val)

valid_indices == {"1 month Sofr + spread", "OBFR01", "FEDL01", "OBFR"}

\* dict d with d[k] = v
Put(d, k, v) == (k :> v) @@ d

\* The text fields the alias table fills: a field is set when a value was found
\* and is not empty.
AliasFields(element, info) ==
    LET f(d, name) ==
            LET value == find_field_value(field_mappings[name], element)
            IN  IF value /= None /\ value /= ""
                THEN Put(d, name, IF name = "notional_amt" THEN clean_notional(value) ELSE value)
                ELSE d
    IN  f(f(f(f(info, "index_name"), "index_identifier"), "counterparty_name"), "notional_amt")

\* FloatingFieldsStrict without the allow-list
FloatingFieldsStrict_as_written(element, info) ==
    IF element.fpd = <<>> THEN info
    ELSE LET attrib == element.fpd[1]
             a == Put(info, "fixed_or_floating",
                      IF "fixedOrFloating" \in DOMAIN attrib THEN attrib["fixedOrFloating"] ELSE None)
             floating_rt_index ==
                 IF "floatingRtIndex" \in DOMAIN attrib THEN attrib["floatingRtIndex"] ELSE ""
             b == IF floating_rt_index /= ""
                  THEN Put(a, "floating_rt_index", floating_rt_index) ELSE a
         IN  IF "floatingRtSpread" \in DOMAIN attrib
             THEN Put(b, "floating_rt_spread", clean_spread(attrib["floatingRtSpread"]))
             ELSE b

\* The attributes of floatingPmntDesc, as the strict copy of the class reads them.
FloatingFieldsStrict(element, info) ==
    IF element.fpd = <<>> THEN info
    ELSE LET attrib == element.fpd[1]
             a == Put(info, "fixed_or_floating",
                      IF "fixedOrFloating" \in DOMAIN attrib THEN attrib["fixedOrFloating"] ELSE None)
             floating_rt_index ==
                 IF "floatingRtIndex" \in DOMAIN attrib THEN attrib["floatingRtIndex"] ELSE ""
             b == IF floating_rt_index /= ""
                  THEN Put(a, "floating_rt_index",
                           IF floating_rt_index \in valid_indices
                           THEN floating_rt_index ELSE "1 month Sofr + spread")
                  ELSE a
         IN  IF "floatingRtSpread" \in DOMAIN attrib
             THEN Put(b, "floating_rt_spread", clean_spread(attrib["floatingRtSpread"]))
             ELSE b

\* The same in the copy etf_swap_extractor_manual_fixed.py: no allow-list, and an
\* empty spread is not kept.
FloatingFieldsLoose(element, info) ==
    IF element.fpd = <<>> THEN info
    ELSE LET attrib == element.fpd[1]
             a == Put(info, "fixed_or_floating",
                      IF "fixedOrFloating" \in DOMAIN attrib THEN attrib["fixedOrFloating"] ELSE None)
             floating_rt_index ==
                 IF "floatingRtIndex" \in DOMAIN attrib THEN attrib["floatingRtIndex"] ELSE ""
             b == IF floating_rt_index /= ""
                  THEN Put(a, "floating_rt_index", floating_rt_index) ELSE a
             floating_rt_spread ==
                 IF "floatingRtSpread" \in DOMAIN attrib THEN attrib["floatingRtSpread"] ELSE ""
         IN  IF floating_rt_spread /= ""
             THEN Put(b, "floating_rt_spread", clean_spread(floating_rt_spread))
             ELSE b

required_fields == {"counterparty_name", "fixed_or_floating", "floating_rt_index", "notional_amt"}

\* all(field in swap_info for field in required_fields)
has_swap_data(swap_info) == required_fields \subseteq DOMAIN swap_info

\* _extract_specific_swap_info: <<>> for None, <<swap_info>> for a record.
extract_specific_swap_info(variant, element, ticker, filing_url) ==
    IF ~has_swap_indicators(element) THEN <<>>
    ELSE LET base == [ticker |-> ticker, filing_url |-> filing_url]
             aliased == AliasFields(element, base)
         IN  IF variant = "manual"
             THEN LET swap_info == FloatingFieldsStrict(element, aliased)
                  IN  IF has_swap_data(swap_info) THEN <<swap_info>> ELSE <<>>
             ELSE <<FloatingFieldsLoose(element, aliased)>>

investment_paths ==
    <<"invstOrSec", "derivativeInstrument", "derivative", "investment", "security", "holding">>

\* Mutant of OtherSeries: a document without a seriesId element is let through.
OtherSeries_absent_passes(doc, series_id) ==
    series_id /= None /\ series_id /= "" /\ doc.seriesId /= None /\ doc.seriesId /= series_id

\* if series_id: the filing is of another series when the first nport:seriesId is
\* missing or its text is not the filter.
OtherSeries(doc, series_id) ==
    series_id /= None /\ series_id /= "" /\ doc.seriesId /= series_id

\* period_of_report of the document, None without a repPdEndDt text
PeriodOf(doc) ==
    IF doc.repPdEndDt /= None /\ doc.repPdEndDt /= "" THEN Strip(doc.repPdEndDt) ELSE None

\* index_name_elem.text.strip() and index_id_elem.text.strip() of an element
\* with text; None when the section or the element is missing.
TextOf(text) == IF text = None THEN None ELSE Strip(text)

\* dict d with d[k] = v unless d has the key k
PutDefault(d, k, v) == IF k \in DOMAIN d THEN d ELSE Put(d, k, v)

RECURSIVE ElementsOfPath_entry_first(_, _, _, _, _, _)
\* ElementsOfPath with the filing-level index values given only to the records
\* whose entry gave none
ElementsOfPath_entry_first(variant, doc, tag, ticker, filing_url, i) ==
    IF i > Len(doc.entries) THEN <<>>
    ELSE LET element == doc.entries[i]
             got == IF element.ns = "nport" /\ element.tag = tag
                    THEN extract_specific_swap_info(variant, element, ticker, filing_url)
                    ELSE <<>>
             rec == IF got = <<>> THEN <<>>
                    ELSE <<PutDefault(PutDefault(Put(got[1], "period_of_report", PeriodOf(doc)),
                                                 "index_name", TextOf(doc.varInfo.name)),
                                      "index_identifier", TextOf(doc.varInfo.id))>>
         IN  rec \o ElementsOfPath_entry_first(variant, doc, tag, ticker, filing_url, i + 1)

RECURSIVE ElementsOfPath(_, _, _, _, _, _)
\* The records of the entries found by one path, in document order, each with the
\* filing-level values put over what the entry gave.
ElementsOfPath(variant, doc, tag, ticker, filing_url, i) ==
    IF i > Len(doc.entries) THEN <<>>
    ELSE LET element == doc.entries[i]
             got == IF element.ns = "nport" /\ element.tag = tag
                    THEN extract_specific_swap_info(variant, element, ticker, filing_url)
                    ELSE <<>>
             rec == IF got = <<>> THEN <<>>
                    ELSE <<Put(Put(Put(got[1], "period_of_report", PeriodOf(doc)),
                                   "index_name", TextOf(doc.varInfo.name)),
                               "index_identifier", TextOf(doc.varInfo.id))>>
         IN  rec \o ElementsOfPath(variant, doc, tag, ticker, filing_url, i + 1)

RECURSIVE AllPaths(_, _, _, _, _)
AllPaths(variant, doc, ticker, filing_url, p) ==
    IF p > Len(investment_paths) THEN <<>>
    ELSE ElementsOfPath(variant, doc, investment_paths[p], ticker, filing_url, 1)
         \o AllPaths(variant, doc, ticker, filing_url, p + 1)

\* The except clauses of _parse_nport_xml_specific without the last one
parser_handlers_parse_error_only == <<"ParseError">>

\* The except clauses of the outer try of _parse_nport_xml_specific, in order;
\* after each the function returns swap_data.
parser_handlers == <<"ParseError", "Exception">>

\* The outer try block of _parse_nport_xml_specific: the exception it is left
\* with (None when it is not) and the list swap_data at that point.  The bytes
\* are decoded before they are parsed; the text of nameDesignatedIndex and of
\* indexIdentifier is stripped whether the element has text or not; the two
\* loops catch what is raised inside them.
parser_try(variant, doc, ticker, filing_url, series_id) ==
    IF ~doc.utf8 THEN [exc |-> "UnicodeDecodeError", list |-> <<>>]
    ELSE IF ~doc.wellformed THEN [exc |-> "ParseError", list |-> <<>>]
    ELSE IF OtherSeries(doc, series_id) THEN [exc |-> None, list |-> <<>>]
    ELSE IF doc.varInfo.name = "" \/ doc.varInfo.id = ""
    THEN [exc |-> "AttributeError", list |-> <<>>]
    ELSE [exc |-> None, list |-> AllPaths(variant, doc, ticker, filing_url, 1)]

\* Whether _parse_nport_xml_specific is left by an exception none of its except
\* clauses catches.
parse_nport_xml_specific_raises(variant, doc, ticker, filing_url, series_id) ==
    LET r == parser_try(variant, doc, ticker, filing_url, series_id)
    IN  r.exc /= None /\ ~Handled(r.exc, parser_handlers)

\* _parse_nport_xml_specific
parse_nport_xml_specific(variant, doc, ticker, filing_url, series_id) ==
    parser_try(variant, doc, ticker, filing_url, series_id).list

---------------------------------------------------------------------------
(* The filing locator.  A response is [kind, data]: kind "ok" is status    *)
(* 200 with the JSON document data, the others are a timeout, a transport  *)
(* error and a status other than 200.  data.recent holds the parallel      *)
(* arrays form, accessionNumber, filingDate (and primaryDocument,          *)
(* primaryDocDescription, which only the copy manual_fixed reads);         *)
(* data.files is the list of older entries.                                *)

\* Code point of a character of a date string.
CodePoint(c) == IF c = "-" THEN 45 ELSE 48 + DigitVal(c)

RECURSIVE StrLess(_, _)
\* a < b on Python strings
StrLess(a, b) ==
    IF b = "" THEN FALSE
    ELSE IF a = "" THEN TRUE
    ELSE IF Char(a, 1) = Char(b, 1) THEN StrLess(SubSeq(a, 2, Len(a)), SubSeq(b, 2, Len(b)))
    ELSE CodePoint(Char(a, 1)) < CodePoint(Char(b, 1))

StrLeq(a, b) == a = b \/ StrLess(a, b)

\* Whether dateutil's parse accepts s; the index writes dates as YYYY-MM-DD.
DateOk(s) ==
    /\ Len(s) = 10
    /\ AllDigits(SubSeq(s, 1, 4)) /\ Char(s, 5) = "-"
    /\ AllDigits(SubSeq(s, 6, 7)) /\ Char(s, 8) = "-"
    /\ AllDigits(SubSeq(s, 9, 10))
    /\ DigitsVal(SubSeq(s, 6, 7)) \in 1..12
    /\ DigitsVal(SubSeq(s, 9, 10)) \in 1..31

\* parse(s) as the day number yyyymmdd, which orders as the datetime does
DateVal(s) ==
    DigitsVal(SubSeq(s, 1, 4)) * 10000 + DigitsVal(SubSeq(s, 6, 7)) * 100
        + DigitsVal(SubSeq(s, 9, 10))

\* f"https://www.sec.gov/Archives/edgar/data/{int(cik)}/{acc_no}/primary_doc.xml"
XmlUrl(cik, acc_no) ==
    "https://www.sec.gov/Archives/edgar/data/" \o ToString(DigitsVal(cik)) \o "/"
        \o acc_no \o "/primary_doc.xml"

Raised == [raised |-> TRUE, list |-> <<>>]

Returned(list) == [raised |-> FALSE, list |-> list]

\* KeepFiling with the window open at both ends
KeepFiling_open(filing_date, accession, cik, start_date, end_date) ==
    IF ~DateOk(filing_date) \/ ~DateOk(start_date) \/ ~DateOk(end_date) THEN Raised
    ELSE IF ~(DateVal(start_date) < DateVal(filing_date)
              /\ DateVal(filing_date) < DateVal(end_date)) THEN Returned(<<>>)
    ELSE IF accession = <<>> THEN Raised
    ELSE LET acc_no == Remove(accession[1], "-")
         IN  IF acc_no = "" THEN Returned(<<>>)
             ELSE IF ~AllDigits(cik) \/ cik = "" THEN Raised
             ELSE Returned(<<[filing_date |-> filing_date, filing_url |-> XmlUrl(cik, acc_no)]>>)

\* What one pass of a loop of get_historical_filings appends for an NPORT-P entry
\* whose filing date was read, or that it raises.  accession is <<>> when the
\* array accessionNumber is too short for the entry.
KeepFiling(filing_date, accession, cik, start_date, end_date) ==
    IF ~DateOk(filing_date) \/ ~DateOk(start_date) \/ ~DateOk(end_date) THEN Raised
    ELSE IF ~(DateVal(start_date) <= DateVal(filing_date)
              /\ DateVal(filing_date) <= DateVal(end_date)) THEN Returned(<<>>)
    ELSE IF accession = <<>> THEN Raised
    ELSE LET acc_no == Remove(accession[1], "-")
         IN  IF acc_no = "" THEN Returned(<<>>)
             ELSE IF ~AllDigits(cik) \/ cik = "" THEN Raised
             ELSE Returned(<<[filing_date |-> filing_date, filing_url |-> XmlUrl(cik, acc_no)]>>)

RECURSIVE RecentLoop(_, _, _, _, _)
\* for i, form in enumerate(forms): filing_dates[i] and accession_numbers[i] raise
\* IndexError past their ends.
RecentLoop(recent, cik, start_date, end_date, i) ==
    IF i > Len(recent.form) THEN Returned(<<>>)
    ELSE LET here ==
                 IF recent.form[i] /= "NPORT-P" THEN Returned(<<>>)
                 ELSE IF i > Len(recent.filingDate) THEN Raised
                 ELSE KeepFiling(recent.filingDate[i],
                                 IF i <= Len(recent.accessionNumber)
                                 THEN <<recent.accessionNumber[i]>> ELSE <<>>,
                                 cik, start_date, end_date)
             rest == RecentLoop(recent, cik, start_date, end_date, i + 1)
         IN  IF here.raised \/ rest.raised THEN Raised ELSE Returned(here.list \o rest.list)

RECURSIVE FilesLoop(_, _, _, _, _)
\* for file_info in files: an entry without a filing date is passed over.
FilesLoop(files, cik, start_date, end_date, i) ==
    IF i > Len(files) THEN Returned(<<>>)
    ELSE LET here ==
                 IF files[i].form /= "NPORT-P" \/ files[i].filingDate = "" THEN Returned(<<>>)
                 ELSE KeepFiling(files[i].filingDate, <<files[i].accessionNumber>>,
                                 cik, start_date, end_date)
             rest == FilesLoop(files, cik, start_date, end_date, i + 1)
         IN  IF here.raised \/ rest.raised THEN Raised ELSE Returned(here.list \o rest.list)

RECURSIVE InsertDesc(_, _)
\* x put into a list sorted by filing_date descending, after the entries of the
\* same date
InsertDesc(sorted, x) ==
    IF sorted = <<>> THEN <<x>>
    ELSE IF StrLess(Head(sorted).filing_date, x.filing_date) THEN <<x>> \o sorted
    ELSE <<Head(sorted)>> \o InsertDesc(Tail(sorted), x)

RECURSIVE SortDescFrom(_, _)
SortDescFrom(list, sorted) ==
    IF list = <<>> THEN sorted ELSE SortDescFrom(Tail(list), InsertDesc(sorted, Head(list)))

\* nport_filings.sort(key=lambda x: x['filing_date'], reverse=True): a stable sort
\* on the date strings
SortByFilingDateDesc(list) == SortDescFrom(list, <<>>)

\* The except clauses of get_historical_filings without the last one
locator_handlers_requests_only == <<"Timeout", "RequestException">>

\* The except clauses of get_historical_filings, in order; each returns [].
locator_handlers == <<"Timeout", "RequestException", "Exception">>

\* The try block of get_historical_filings: the exception it is left with (None
\* when it returns) and the list it returns.
locator_try(response, cik, start_date, end_date) ==
    CASE response.kind = "timeout" -> [exc |-> "Timeout", list |-> <<>>]
      [] response.kind = "error" -> [exc |-> "ConnectionError", list |-> <<>>]
      [] response.kind = "status" -> [exc |-> None, list |-> <<>>]
      [] response.kind = "notjson" -> [exc |-> "JSONDecodeError", list |-> <<>>]
      [] OTHER ->
            LET recent == RecentLoop(response.data.recent, cik, start_date, end_date, 1)
                files == FilesLoop(response.data.files, cik, start_date, end_date, 1)
            IN  IF recent.raised \/ files.raised
                THEN [exc |-> "Exception", list |-> <<>>]
                ELSE [exc |-> None,
                      list |-> SortByFilingDateDesc(recent.list \o files.list)]

\* Whether get_historical_filings of etf_swap_extractor_manual.py is left by an
\* exception none of its except clauses catches.
get_historical_filings_raises(response, cik, start_date, end_date) ==
    LET r == locator_try(response, cik, start_date, end_date)
    IN  r.exc /= None /\ ~Handled(r.exc, locator_handlers)

\* get_historical_filings of etf_swap_extractor_manual.py
get_historical_filings(response, cik, start_date, end_date) ==
    LET r == locator_try(response, cik, start_date, end_date)
    IN  IF r.exc /= None THEN <<>> ELSE r.list

RECURSIVE RecentLoopFixed(_, _, _, _)
\* for i in range(len(form_types)): dates are compared as strings, and the arrays
\* filing_dates, primary_docs, primary_doc_descriptions raise past their ends.
RecentLoopFixed(recent, start_date, end_date, i) ==
    IF i > Len(recent.form) THEN Returned(<<>>)
    ELSE LET here ==
                 IF recent.form[i] /= "NPORT-P" THEN Returned(<<>>)
                 ELSE IF i > Len(recent.filingDate) THEN Raised
                 ELSE IF ~(StrLeq(start_date, recent.filingDate[i])
                           /\ StrLeq(recent.filingDate[i], end_date)) THEN Returned(<<>>)
                 ELSE IF i > Len(recent.primaryDocument)
                         \/ i > Len(recent.primaryDocDescription) THEN Raised
                 ELSE Returned(<<[filing_date |-> recent.filingDate[i],
                                  primary_doc |-> recent.primaryDocument[i],
                                  description |-> recent.primaryDocDescription[i]]>>)
             rest == RecentLoopFixed(recent, start_date, end_date, i + 1)
         IN  IF here.raised \/ rest.raised THEN Raised ELSE Returned(here.list \o rest.list)

\* get_historical_filings of etf_swap_extractor_manual_fixed.py (an index without
\* recent filings has empty arrays here, and the loop returns the empty list the
\* early return would)
get_historical_filings_fixed(response, cik, start_date, end_date) ==
    IF response.kind /= "ok" THEN <<>>
    ELSE LET recent == RecentLoopFixed(response.data.recent, start_date, end_date, 1)
         IN  IF recent.raised THEN <<>> ELSE recent.list

---------------------------------------------------------------------------
(* Table swap_data.  A row is its columns without id and extracted_date;   *)
(* the table is the set of its rows.  The columns ticker, filing_date and  *)
(* the period are NOT NULL, and UNIQUE(ticker, filing_date, counterparty,  *)
(* notional) holds between rows whose four key columns are all non-NULL.   *)

\* swap.get(k) for a text column
GetText(d, k) == IF k \in DOMAIN d THEN d[k] ELSE None

\* swap.get(k) for a numeric column
GetNum(d, k) == IF k \in DOMAIN d THEN d[k] ELSE NoneVal

\* a or b on values that are strings or None
Or(a, b) == IF a = None \/ a = "" THEN b ELSE a

\* The key columns of a row of either schema.
RowKey(r) ==
    IF "counterparty_name" \in DOMAIN r
    THEN <<r.ticker, r.filing_date, r.counterparty_name, r.notional_amt>>
    ELSE <<r.ticker, r.filing_date, r.swap_counterparty, r.notional_amount>>

\* Whether a row can conflict under the UNIQUE constraint at all: NULLs are
\* distinct from one another.
KeyNotNull(r) ==
    LET k == RowKey(r) IN k[3] /= None /\ k[4] /= NoneVal

\* Whether the NOT NULL columns of a row are filled.
NotNullOk(r) ==
    /\ r.ticker /= None
    /\ r.filing_date /= None
    /\ IF "period_of_report" \in DOMAIN r THEN r.period_of_report /= None
       ELSE r.report_date /= None

Conflicts(table, r) ==
    {x \in table : KeyNotNull(r) /\ KeyNotNull(x) /\ RowKey(x) = RowKey(r)}

\* INSERT OR REPLACE of a row that satisfies NOT NULL
InsertOrReplace(table, r) == (table \ Conflicts(table, r)) \cup {r}

\* INSERT OR IGNORE of a row that satisfies NOT NULL
InsertOrIgnore(table, r) ==
    IF Conflicts(table, r) /= {} THEN table ELSE table \cup {r}

\* The row save_swap_data_specific of etf_swap_extractor_manual.py binds.
RowManual(swap, filing_date, period_of_report) ==
    [ticker |-> swap.ticker,
     filing_date |-> filing_date,
     period_of_report |-> Or(Or(GetText(swap, "period_of_report"), period_of_report), filing_date),
     index_name |-> GetText(swap, "index_name"),
     index_identifier |-> GetText(swap, "index_identifier"),
     counterparty_name |-> GetText(swap, "counterparty_name"),
     fixed_or_floating |-> GetText(swap, "fixed_or_floating"),
     floating_rt_index |-> GetText(swap, "floating_rt_index"),
     floating_rt_spread |-> GetNum(swap, "floating_rt_spread"),
     notional_amt |-> GetNum(swap, "notional_amt"),
     filing_url |-> GetText(swap, "filing_url")]

RECURSIVE save_swap_data_specific(_, _, _, _)
\* save_swap_data_specific of etf_swap_extractor_manual.py: a record whose insert
\* raises (a missing ticker, a NULL in a NOT NULL column) is passed over, and the
\* others are committed.
save_swap_data_specific(table, swap_data, filing_date, period_of_report) ==
    IF swap_data = <<>> THEN table
    ELSE LET swap == Head(swap_data)
             after ==
                 IF "ticker" \notin DOMAIN swap THEN table
                 ELSE LET r == RowManual(swap, filing_date, period_of_report)
                      IN  IF NotNullOk(r) THEN InsertOrReplace(table, r) ELSE table
         IN  save_swap_data_specific(after, Tail(swap_data), filing_date, period_of_report)

\* The row save_swap_data_specific of etf_swap_extractor_manual_fixed.py binds.
RowFixed(data, filing_date, period_of_report) ==
    [ticker |-> GetText(data, "ticker"),
     filing_date |-> filing_date,
     period_of_report |-> Or(period_of_report, GetText(data, "period_of_report")),
     index_name |-> GetText(data, "index_name"),
     index_identifier |-> GetText(data, "index_identifier"),
     counterparty_name |-> GetText(data, "counterparty_name"),
     fixed_or_floating |-> GetText(data, "fixed_or_floating"),
     floating_rt_index |-> GetText(data, "floating_rt_index"),
     floating_rt_spread |-> GetNum(data, "floating_rt_spread"),
     notional_amt |-> GetNum(data, "notional_amt"),
     filing_url |-> GetText(data, "filing_url")]

RECURSIVE InsertAllFixed(_, _, _, _)
InsertAllFixed(table, swap_data, filing_date, period_of_report) ==
    IF swap_data = <<>> THEN table
    ELSE InsertAllFixed(InsertOrReplace(table, RowFixed(Head(swap_data), filing_date, period_of_report)),
                        Tail(swap_data), filing_date, period_of_report)

\* save_swap_data_specific of etf_swap_extractor_manual_fixed.py: one transaction,
\* rolled back when any insert raises.
save_swap_data_specific_fixed(table, swap_data, filing_date, period_of_report) ==
    IF \E i \in DOMAIN swap_data : ~NotNullOk(RowFixed(swap_data[i], filing_date, period_of_report))
    THEN table
    ELSE InsertAllFixed(table, swap_data, filing_date, period_of_report)

\* The row save_swap_data of etf_swap_extractor.py binds.
RowBase(data, filing_date, report_date) ==
    [ticker |-> GetText(data, "ticker"),
     filing_date |-> filing_date,
     report_date |-> Or(report_date, filing_date),
     swap_counterparty |-> GetText(data, "counterparty"),
     notional_amount |-> GetNum(data, "notional_amount"),
     fixed_or_floating |-> GetText(data, "fixed_or_floating"),
     floating_rate_index |-> GetText(data, "floating_rate_index"),
     floating_rate_spread |-> GetNum(data, "floating_rate_spread"),
     drp |-> GetNum(data, "drp"),
     filing_url |-> GetText(data, "filing_url")]

RECURSIVE save_swap_data(_, _, _, _)
\* save_swap_data of etf_swap_extractor.py: INSERT OR IGNORE, which also passes
\* over a row with a NULL in a NOT NULL column.
save_swap_data(table, swap_data, filing_date, report_date) ==
    IF swap_data = <<>> THEN table
    ELSE LET r == RowBase(Head(swap_data), filing_date, report_date)
             after == IF NotNullOk(r) THEN InsertOrIgnore(table, r) ELSE table
         IN  save_swap_data(after, Tail(swap_data), filing_date, report_date)

\* clear_ticker_data with a DELETE that matches no row
clear_ticker_data_keeps(table, ticker) == table

\* clear_ticker_data: DELETE FROM swap_data WHERE ticker = ?
clear_ticker_data(table, ticker) == {r \in table : r.ticker /= ticker}

---------------------------------------------------------------------------
(* Direct calls of the parser.                                             *)

\* Longest list of candidate entries in a generated document.
MaxEntries == 1

\* Variables a specification does not use.
Unused == "unused"

NoVarInfo == [name |-> None, id |-> None]

Child(ns, tag, text) == [ns |-> ns, tag |-> tag, text |-> text]

NameChild == Child("nport", "name", "Tesla Inc")

CounterpartyChildren == {<<>>, <<Child("nport", "counterpartyName", "BANK A")>>}

NotionalChildren == {<<>>, <<Child("nport", "notionalAmt", "1,000,000.00")>>}

FloatingPmntDescs ==
    {<<>>,
     <<[fixedOrFloating |-> "floating", floatingRtSpread |-> "0.15"]>>,
     <<[fixedOrFloating |-> "floating", floatingRtIndex |-> "OBFR01",
        floatingRtSpread |-> "0.15"]>>,
     <<[floatingRtIndex |-> "LIBOR"]>>}

EntryTags == {"invstOrSec", "derivativeInstrument"}

Entries ==
    {[ns |-> "nport", tag |-> t, children |-> <<NameChild>> \o c \o n, fpd |-> f] :
        t \in EntryTags, c \in CounterpartyChildren, n \in NotionalChildren,
        f \in FloatingPmntDescs}

SeqsUpTo(S, n) == UNION {[1..k -> S] : k \in 0..n}

SeriesIds == {"S000001", "S000002"}

\* An entry with the four values the strict copy asks for.
FullEntry ==
    [ns |-> "nport", tag |-> "derivativeInstrument",
     children |-> <<NameChild, Child("nport", "counterpartyName", "BANK A"),
                    Child("nport", "notionalAmt", "1,000,000.00")>>,
     fpd |-> <<[fixedOrFloating |-> "floating", floatingRtIndex |-> "OBFR01",
                floatingRtSpread |-> "0.15"]>>]

\* Documents with the entry FullEntry that were not written as UTF-8 (with an
\* encoding declaration ET.fromstring follows, so well-formed), or whose
\* nameDesignatedIndex or indexIdentifier element has no text.
OddDocs ==
    {[wellformed |-> TRUE, utf8 |-> FALSE, seriesId |-> "S000001", repPdEndDt |-> None,
      varInfo |-> NoVarInfo, entries |-> <<FullEntry>>],
     [wellformed |-> TRUE, utf8 |-> TRUE, seriesId |-> "S000001", repPdEndDt |-> None,
      varInfo |-> [name |-> "", id |-> None], entries |-> <<FullEntry>>],
     [wellformed |-> TRUE, utf8 |-> TRUE, seriesId |-> "S000001", repPdEndDt |-> None,
      varInfo |-> [name |-> None, id |-> ""], entries |-> <<FullEntry>>]}

\* Documents with the entry FullEntry and a varInfo section that designates an
\* index, by name and identifier or by name only.
IndexedDocs ==
    {[wellformed |-> TRUE, utf8 |-> TRUE, seriesId |-> "S000001", repPdEndDt |-> " 2024-03-31 ",
      varInfo |-> [name |-> " TSLA Index ", id |-> "IDX1"], entries |-> <<FullEntry>>],
     [wellformed |-> TRUE, utf8 |-> TRUE, seriesId |-> "S000001", repPdEndDt |-> None,
      varInfo |-> [name |-> "TSLA Index", id |-> None], entries |-> <<FullEntry>>]}

\* The documents: the well-formed ones of the series S000001 or without a
\* seriesId, one that ET.fromstring rejects, the odd ones and the ones with a
\* designated index.
Docs ==
    {[wellformed |-> TRUE, utf8 |-> TRUE, seriesId |-> s, repPdEndDt |-> p,
      varInfo |-> NoVarInfo, entries |-> es] :
        s \in {"S000001", None}, p \in {None, "2024-03-31"},
        es \in SeqsUpTo(Entries, MaxEntries)}
    \cup {[wellformed |-> FALSE, utf8 |-> TRUE, seriesId |-> None, repPdEndDt |-> None,
            varInfo |-> NoVarInfo, entries |-> <<>>]}
    \cup OddDocs \cup IndexedDocs

Variants == {"manual", "fixed"}

ParseInit ==
    /\ impl \in Variants
    /\ input \in [doc : Docs, ticker : {"TSLL"},
                  filing_url : {"https://www.sec.gov/Archives/edgar/data/1424958/000142495824000012/primary_doc.xml"},
                  series_id : SeriesIds \cup {None}]
    /\ output = <<>>
    /\ pc = "call"
    /\ store = Unused /\ driver = Unused /\ cur = Unused /\ filings = Unused
    /\ idx = Unused /\ outcomes = Unused /\ alarm = Unused /\ queue = Unused
    /\ tally = Unused /\ prevRun = Unused /\ today = Unused
    /\ threads = Unused

ParseCall ==
    /\ pc = "call"
    /\ \E r \in {parser_try(impl, input.doc, input.ticker, input.filing_url,
                             input.series_id)} :
          /\ output' = r.list
          /\ pc' = IF r.exc /= None /\ ~Handled(r.exc, parser_handlers)
                   THEN "raised" ELSE "returned"
    /\ UNCHANGED <<threads, impl, input, store, driver, cur, filings, idx, outcomes, alarm,
                   queue, tally, prevRun, today>>

ParseNext == ParseCall

ParseSpec == ParseInit /\ [][ParseNext]_vars

---------------------------------------------------------------------------
(* Direct calls of the filing locator.                                     *)

\* Longest array of recent filings in a generated index.
MaxIndex == 3

Forms == {"NPORT-P", "NPORT-P/A"}

\* Two dates inside the window of the calls, the last day of the window and a
\* day before it.
FilingDates == {"2024-01-30", "2024-02-28", "2024-12-31", "2021-12-31"}

\* The accession number at position i of an index.
AccessionAt(i) == "0001424958-24-00001" \o ToString(i)

\* The JSON document with the recent filings es (form and date of each) and the
\* older entries files.
IndexData(es, files) ==
    [recent |-> [form |-> [i \in DOMAIN es |-> es[i].form],
                 filingDate |-> [i \in DOMAIN es |-> es[i].filingDate],
                 accessionNumber |-> [i \in DOMAIN es |-> AccessionAt(i)],
                 primaryDocument |-> [i \in DOMAIN es |-> "primary_doc.xml"],
                 primaryDocDescription |-> [i \in DOMAIN es |-> "NPORT-P"]],
     files |-> files]

OlderFiles ==
    {<<>>, <<[form |-> "NPORT-P", filingDate |-> "2024-02-01",
              accessionNumber |-> "0001424958-24-000009"]>>}

IndexDatas ==
    {IndexData(es, fs) : es \in SeqsUpTo([form : Forms, filingDate : FilingDates], MaxIndex),
                         fs \in OlderFiles}

\* An index whose last recent entry is not as EDGAR writes it: the array
\* accessionNumber or filingDate is one short, the accession number is empty, or
\* the filing date is no date.
Damaged(d, how) ==
    LET n == Len(d.recent.form)
    IN  CASE how = "acc_short" ->
                [d EXCEPT !.recent.accessionNumber = SubSeq(@, 1, n - 1)]
          [] how = "date_short" ->
                [d EXCEPT !.recent.filingDate = SubSeq(@, 1, n - 1)]
          [] how = "acc_empty" ->
                [d EXCEPT !.recent.accessionNumber[n] = ""]
          [] how = "bad_date" ->
                [d EXCEPT !.recent.filingDate[n] = "2024-13-45"]

DamagedIndexDatas ==
    {Damaged(IndexData(es, <<>>), how) :
        es \in SeqsUpTo([form : Forms, filingDate : {"2024-01-30", "2024-02-28"}], 2)
                  \ {<<>>},
        how \in {"acc_short", "date_short", "acc_empty", "bad_date"}}

ResponseKinds == {"ok", "timeout", "error", "status"}

NoData == IndexData(<<>>, <<>>)

\* The answers to the index request of a direct call: those of ResponseKinds, and
\* status 200 with a body that is no JSON document.
IndexResponses ==
    {[kind |-> "ok", data |-> d] : d \in IndexDatas \cup DamagedIndexDatas}
        \cup {[kind |-> k, data |-> NoData] : k \in (ResponseKinds \ {"ok"}) \cup {"notjson"}}

LocInit ==
    /\ impl \in Variants
    /\ input \in [response : IndexResponses, cik : {"0001424958"},
                  start_date : {"2022-01-01"}, end_date : {"2024-12-31"}]
    /\ output = <<>>
    /\ pc = "call"
    /\ store = Unused /\ driver = Unused /\ cur = Unused /\ filings = Unused
    /\ idx = Unused /\ outcomes = Unused /\ alarm = Unused /\ queue = Unused
    /\ tally = Unused /\ prevRun = Unused /\ today = Unused
    /\ threads = Unused

LocCall ==
    /\ pc = "call"
    /\ output' = IF impl = "manual"
                 THEN get_historical_filings(input.response, input.cik,
                                             input.start_date, input.end_date)
                 ELSE get_historical_filings_fixed(input.response, input.cik,
                                                   input.start_date, input.end_date)
    /\ pc' = IF impl = "manual"
                 /\ get_historical_filings_raises(input.response, input.cik,
                                                  input.start_date, input.end_date)
             THEN "raised" ELSE "returned"
    /\ UNCHANGED <<threads, impl, input, store, driver, cur, filings, idx, outcomes, alarm,
                   queue, tally, prevRun, today>>

LocNext == LocCall

LocSpec == LocInit /\ [][LocNext]_vars

---------------------------------------------------------------------------
(* Direct calls of the three save functions on one database.  The entries  *)
(* of a call are those of one document: they carry its period of report,   *)
(* which is also the period process_ticker_xml passes.                     *)

\* Longest list of entries saved by one call.
MaxBatch == 2

Counterparties == {"BANK A", "BANK B"}

Spreads == {Flt(15, 2), Flt(25, 2)}

Stores == {"manual", "fixed", "base"}

\* An extracted entry as the parser of the copy v leaves it.
SwapEntry(v, cp, spread, period) ==
    IF v = "base"
    THEN [ticker |-> "TSLL", filing_url |-> "primary_doc.xml", counterparty |-> cp,
          notional_amount |-> Flt(1000000, 0), fixed_or_floating |-> "floating",
          floating_rate_index |-> "OBFR01", floating_rate_spread |-> spread]
    ELSE [ticker |-> "TSLL", filing_url |-> "primary_doc.xml", counterparty_name |-> cp,
          notional_amt |-> Flt(1000000, 0), fixed_or_floating |-> "floating",
          floating_rt_index |-> "OBFR01", floating_rt_spread |-> spread,
          period_of_report |-> period, index_name |-> None, index_identifier |-> None]

\* What a call is given for one entry: counterparty, spread and ticker.  The
\* last one has no ticker (None), and the column ticker is NOT NULL.
EntryPicks ==
    (Counterparties \X Spreads \X {"TSLL"}) \cup {<<"BANK B", Flt(15, 2), None>>}

SaveInit ==
    /\ impl \in Stores
    /\ store = {}
    /\ input = [swap_data |-> <<>>, filing_date |-> "2024-05-01", period_of_report |-> None]
    /\ pc = "call"
    /\ output = Unused /\ driver = Unused /\ cur = Unused /\ filings = Unused
    /\ idx = Unused /\ outcomes = Unused /\ alarm = Unused /\ queue = Unused
    /\ tally = Unused /\ prevRun = Unused /\ today = Unused
    /\ threads = Unused

\* One call of the save function of the copy that owns the database.
SaveCall ==
    \E period \in {None, "2024-03-31"} :
    \E picks \in SeqsUpTo(EntryPicks, MaxBatch) :
        LET swap_data == [i \in DOMAIN picks |->
                             [SwapEntry(impl, picks[i][1], picks[i][2], period)
                                 EXCEPT !.ticker = picks[i][3]]]
            por == IF impl = "base" THEN None ELSE period
        IN  /\ input' = [swap_data |-> swap_data, filing_date |-> "2024-05-01",
                         period_of_report |-> por]
            /\ store' = CASE impl = "manual" ->
                               save_swap_data_specific(store, swap_data, "2024-05-01", por)
                          [] impl = "fixed" ->
                               save_swap_data_specific_fixed(store, swap_data, "2024-05-01", por)
                          [] OTHER ->
                               save_swap_data(store, swap_data, "2024-05-01", por)
            /\ pc' = "returned"
            /\ UNCHANGED <<threads, impl, output, driver, cur, filings, idx, outcomes, alarm,
                           queue, tally, prevRun, today>>

SaveNext == SaveCall

SaveSpec == SaveInit /\ [][SaveNext]_vars

---------------------------------------------------------------------------
(* process_ticker_xml.  A document response is [kind, doc]: kind as for    *)
(* the index, doc the document the server holds.                           *)

RECURSIVE DateMatch(_, _)
\* re.search(r'(\d{4})(\d{2})(\d{2})', xml_url): where the first run of eight
\* digits starts, 0 for no match
DateMatch(s, i) ==
    IF i + 7 > Len(s) THEN 0
    ELSE IF AllDigits(SubSeq(s, i, i + 7)) THEN i
    ELSE DateMatch(s, i + 1)

\* Mutant of filing_date_or_default: the date of the run is taken in every case.
filing_date_or_default_now(filing_date, xml_url, now) == now

\* if not filing_date: the date read off the URL, else the date of the run
filing_date_or_default(filing_date, xml_url, now) ==
    IF filing_date /= None /\ filing_date /= "" THEN filing_date
    ELSE LET i == DateMatch(xml_url, 1)
         IN  IF i > 0
             THEN SubSeq(xml_url, i, i + 3) \o "-" \o SubSeq(xml_url, i + 4, i + 5)
                      \o "-" \o SubSeq(xml_url, i + 6, i + 7)
             ELSE now

\* Mutant of fetched_swap_data: the body is parsed whatever the request gave.
fetched_swap_data_any_status(response, ticker, xml_url, series_id) ==
    parse_nport_xml_specific("manual", response.doc, ticker, xml_url, series_id)

\* swap_data of process_ticker_xml: the parsed records on status 200, and [] from
\* every except branch and from the status branch
fetched_swap_data(response, ticker, xml_url, series_id) ==
    IF response.kind = "ok"
    THEN parse_nport_xml_specific("manual", response.doc, ticker, xml_url, series_id)
    ELSE <<>>

\* The table after process_ticker_xml.  The records are saved in slices of 100,
\* one save_swap_data_specific each; the saves go record by record, so the slices
\* leave what one save of the whole list leaves.
process_ticker_xml(table, response, ticker, xml_url, filing_date, series_id, now) ==
    save_swap_data_specific(table,
                            fetched_swap_data(response, ticker, xml_url, series_id),
                            filing_date_or_default(filing_date, xml_url, now),
                            PeriodOf(response.doc))

\* CREATE TABLE IF NOT EXISTS alone: a table that exists is left as it is.
setup_database_keeps_existing(table) == table

\* setup_database, for each of swap_data and ticker_mappings: DROP TABLE IF
\* EXISTS, then CREATE TABLE IF NOT EXISTS
setup_database(table) == {}

\* for i in range(0, len(filings), batch_size)
batch_size == 5

---------------------------------------------------------------------------
(* The pipeline: process_ticker of etf_swap_extractor_manual.py, called by *)
(* the background job of app.py and by the loop of                         *)
(* robust_worker_batch_load.py, against one database and one EDGAR.        *)

\* Longest list of tickers a worker is started with.
MaxQueue == 2

Tickers == {"TSLL", "NVDL"}

\* The two days a run can see as datetime.now().
Days == <<"2024-06-01", "2024-06-02">>

NoFund == [ticker |-> None, cik |-> None, series_id |-> None,
           start_date |-> None, end_date |-> None]

\* The arguments a caller has for a ticker: neither caller passes dates.
Fund(t) ==
    IF t = "TSLL"
    THEN [ticker |-> "TSLL", cik |-> "0001424958", series_id |-> "S000001",
          start_date |-> None, end_date |-> None]
    ELSE [ticker |-> "NVDL", cik |-> "0001771146", series_id |-> "S000002",
          start_date |-> None, end_date |-> None]

\* The submissions index EDGAR holds for a registrant.
SecIndex(cik) ==
    IF cik = "0001424958"
    THEN IndexData(<<[form |-> "NPORT-P", filingDate |-> "2024-01-30"],
                     [form |-> "NPORT-P", filingDate |-> "2024-02-28"]>>, <<>>)
    ELSE IndexData(<<[form |-> "NPORT-P", filingDate |-> "2024-02-28"]>>, <<>>)

SwapElement(cp) ==
    [ns |-> "nport", tag |-> "derivativeInstrument",
     children |-> <<NameChild, Child("nport", "counterpartyName", cp),
                    Child("nport", "notionalAmt", "1,000,000.00")>>,
     fpd |-> <<[fixedOrFloating |-> "floating", floatingRtIndex |-> "OBFR01",
                floatingRtSpread |-> "0.15"]>>]

\* The document EDGAR holds at a URL.
SecDocument(url) ==
    IF url = XmlUrl("0001424958", Remove(AccessionAt(1), "-"))
    THEN [wellformed |-> TRUE, utf8 |-> TRUE, seriesId |-> "S000001", repPdEndDt |-> "2023-12-31",
          varInfo |-> NoVarInfo, entries |-> <<SwapElement("BANK A")>>]
    ELSE IF url = XmlUrl("0001424958", Remove(AccessionAt(2), "-"))
    THEN [wellformed |-> TRUE, utf8 |-> TRUE, seriesId |-> "S000001", repPdEndDt |-> None,
          varInfo |-> NoVarInfo, entries |-> <<SwapElement("BANK B")>>]
    ELSE [wellformed |-> TRUE, utf8 |-> TRUE, seriesId |-> "S000002", repPdEndDt |-> "2023-12-31",
          varInfo |-> NoVarInfo, entries |-> <<SwapElement("BANK A")>>]

\* How a request ended, as the run's record of it: "ok" for status 200 with a
\* body, "failed" for a timeout, a transport error or another status.
Answer(kind) == IF kind = "ok" THEN "ok" ELSE "failed"

NoOutcomes == [index |-> "none", docs |-> <<>>]

NoRun == [ticker |-> None, end_date |-> None, outcomes |-> NoOutcomes, rows |-> {}]

NoTally == [successful |-> 0, timeout |-> 0, failed |-> 0, attempted |-> <<>>,
            timeout_list |-> <<>>, failed_list |-> <<>>]

RowsOf(table, ticker) == {r \in table : r.ticker = ticker}

\* No response of the web application is being sent.
NoResponse == [page |-> None, flash |-> None]

Init ==
    /\ impl = "manual"
    /\ input = Unused /\ output = NoResponse
    /\ store = {}
    /\ pc = "idle"
    /\ driver = "none"
    /\ cur = NoFund
    /\ filings = <<>>
    /\ idx = 1
    /\ outcomes = NoOutcomes
    /\ alarm = "off"
    /\ queue = <<>>
    /\ tally = NoTally
    /\ prevRun = NoRun
    /\ today = Days[1]
    /\ threads = Unused

\* ticker_to_cik and ticker_to_series of app.py, read from etf_tickers.csv when
\* the application starts
ticker_to_cik == [t \in Tickers |-> Fund(t).cik]

ticker_to_series == [t \in Tickers |-> Fund(t).series_id]

\* What is typed into the form of the start page.
FormTickers == {"tsll ", "NVDL", "XXXX", ""}

\* request.form.get('ticker', '').strip().upper()
requested_ticker(form) == UpperCase(Strip(form))

\* The test of the route with every ticker taken as known
has_mapping_always(ticker) == TRUE

\* ticker in ticker_to_cik
has_mapping(ticker) == ticker \in DOMAIN ticker_to_cik

\* The arguments of the job the route enqueues for a ticker.
JobFund(ticker) ==
    [ticker |-> ticker,
     cik |-> IF ticker \in DOMAIN ticker_to_cik THEN ticker_to_cik[ticker] ELSE None,
     series_id |-> IF ticker \in DOMAIN ticker_to_series
                   THEN ticker_to_series[ticker] ELSE None,
     start_date |-> None, end_date |-> None]

\* POST /process of app.py with the form value form.  Without a ticker, or with
\* one that has no mapping, a message is flashed and the start page rendered;
\* else q.enqueue(run_etf_extraction, ticker, cik, series_id), which the worker
\* of the job queue picks up, and the page processing.html.
PostProcess(form) ==
    LET ticker == requested_ticker(form)
    IN  /\ pc = "idle"
        /\ IF ticker = ""
           THEN /\ output' = [page |-> "index.html", flash |-> "Please enter a ticker symbol"]
                /\ UNCHANGED <<cur, driver, pc>>
           ELSE IF ~has_mapping(ticker)
           THEN /\ output' = [page |-> "index.html",
                              flash |-> "No CIK found for ticker " \o ticker]
                /\ UNCHANGED <<cur, driver, pc>>
           ELSE /\ output' = [page |-> "processing.html", flash |-> None]
                /\ cur' = JobFund(ticker)
                /\ driver' = "job"
                /\ pc' = "construct"
        /\ UNCHANGED <<threads, impl, input, store, filings, idx, outcomes, alarm, queue,
                       tally, prevRun, today>>

\* A request to the route /process
EnqueueJob == \E form \in FormTickers : PostProcess(form)

\* The keys of manual_mappings in get_cik_from_ticker of etf_swap_extractor.py
manual_mappings == {"TSLL", "TQQQ", "SOXL", "FNGU", "TECL", "UPRO", "SPXL"}

\* Whether get_cik_from_ticker of etf_swap_extractor.py returns (None, None):
\* the ticker is not in the table ticker_mappings, neither request to the SEC
\* gives a registrant for it, and manual_mappings has no entry for it.
lookup_fails(ticker, cached, listed) ==
    /\ ticker \notin cached
    /\ UpperCase(ticker) \notin listed
    /\ UpperCase(ticker) \notin manual_mappings

\* process_ticker of etf_swap_extractor.py for a ticker whose lookup fails, with
\* an empty table ticker_mappings and an SEC that lists the tickers of Tickers:
\* it returns False after the lookup.
BaseLookupFailure ==
    /\ pc = "idle"
    /\ \E t \in {"XXXX", "xxxx"} :
          /\ lookup_fails(t, {}, Tickers)
          /\ output' = [page |-> "process_ticker", flash |-> "Could not find CIK for ticker " \o t]
    /\ UNCHANGED <<threads, impl, input, store, pc, driver, cur, filings, idx, outcomes, alarm,
                   queue, tally, prevRun, today>>

\* main of robust_worker_batch_load.py reads its tickers (the response of the
\* last request has been sent by then)
StartWorker ==
    /\ pc = "idle"
    /\ \E q \in SeqsUpTo(Tickers, MaxQueue) \ {<<>>} : queue' = q
    /\ driver' = "worker"
    /\ tally' = NoTally
    /\ output' = NoResponse
    /\ pc' = "construct"
    /\ UNCHANGED <<threads, impl, input, store, cur, filings, idx, outcomes, alarm,
                   prevRun, today>>

\* extractor = ETFSwapDataExtractor(): __init__ calls setup_database
Construct ==
    /\ pc = "construct"
    /\ store' = setup_database(store)
    /\ pc' = IF driver = "job" THEN "pt_clear" ELSE "iter"
    /\ UNCHANGED <<threads, impl, input, output, driver, cur, filings, idx, outcomes, alarm,
                   queue, tally, prevRun, today>>

\* One pass of the worker's loop up to the call of process_ticker: the data of the
\* ticker is cleared, then process_ticker_with_timeout arms the alarm.
WorkerIter ==
    /\ pc = "iter" /\ queue /= <<>>
    /\ cur' = Fund(Head(queue))
    /\ queue' = Tail(queue)
    /\ store' = clear_ticker_data(store, Head(queue))
    /\ alarm' = "armed"
    /\ pc' = "pt_clear"
    /\ UNCHANGED <<threads, impl, input, output, driver, filings, idx, outcomes, tally,
                   prevRun, today>>

\* The worker's loop is over and main returns.
WorkerEnd ==
    /\ pc = "iter" /\ queue = <<>>
    /\ pc' = "idle"
    /\ driver' = "none"
    /\ cur' = NoFund
    /\ tally' = NoTally
    /\ prevRun' = NoRun
    /\ UNCHANGED <<threads, impl, input, output, store, filings, idx, outcomes, alarm, queue,
                   today>>

\* process_ticker up to the call of the locator: clear_ticker_data, then the
\* defaults of start_date and end_date
PtClear ==
    /\ pc = "pt_clear"
    /\ store' = clear_ticker_data(store, cur.ticker)
    /\ cur' = [cur EXCEPT !.start_date = "2022-01-01", !.end_date = today]
    /\ pc' = "pt_locate"
    /\ UNCHANGED <<threads, impl, input, output, driver, filings, idx, outcomes, alarm, queue,
                   tally, prevRun, today>>

\* filings = self.get_historical_filings(cik, start_date, end_date); with no
\* filing the loop has nothing to do and process_ticker is at its end.
PtLocate ==
    /\ pc = "pt_locate"
    /\ \E kind \in ResponseKinds :
          LET fs == get_historical_filings([kind |-> kind, data |-> SecIndex(cur.cik)],
                                           cur.cik, cur.start_date, cur.end_date)
          IN  /\ filings' = fs
              /\ outcomes' = [outcomes EXCEPT !.index = Answer(kind)]
              /\ pc' = IF fs = <<>> THEN "pt_done" ELSE "xml_fetch"
    /\ idx' = 1
    /\ UNCHANGED <<threads, impl, input, output, store, driver, cur, alarm, queue, tally,
                   prevRun, today>>

\* self.process_ticker_xml(ticker, filing['filing_url'], filing['filing_date'],
\* series_id) for the filing at idx
XmlFetch ==
    /\ pc = "xml_fetch"
    /\ \E kind \in ResponseKinds :
          LET filing == filings[idx]
              response == [kind |-> kind, doc |-> SecDocument(filing.filing_url)]
          IN  /\ store' = process_ticker_xml(store, response, cur.ticker, filing.filing_url,
                                             filing.filing_date, cur.series_id, today)
              /\ outcomes' = [outcomes EXCEPT !.docs = Append(@, Answer(kind))]
    /\ pc' = "sleep_filing"
    /\ UNCHANGED <<threads, impl, input, output, driver, cur, filings, idx, alarm, queue, tally,
                   prevRun, today>>

\* Where process_ticker is after the filing at idx: at the end of a batch of
\* batch_size filings or of the list it sleeps before going on.
AfterFiling ==
    IF idx % batch_size = 0 \/ idx = Len(filings) THEN "sleep_batch" ELSE "xml_fetch"

\* time.sleep(0.1) after a filing
SleepFiling ==
    /\ pc = "sleep_filing"
    /\ pc' = AfterFiling
    /\ idx' = idx + 1
    /\ UNCHANGED <<threads, impl, input, output, store, driver, cur, filings, outcomes, alarm,
                   queue, tally, prevRun, today>>

\* time.sleep(0.5) after a batch
SleepBatch ==
    /\ pc = "sleep_batch"
    /\ pc' = IF idx > Len(filings) THEN "pt_done" ELSE "xml_fetch"
    /\ UNCHANGED <<threads, impl, input, output, store, driver, cur, filings, idx, outcomes,
                   alarm, queue, tally, prevRun, today>>

\* process_ticker returns.  The job goes on to export and upload; the wrapper of
\* the worker cancels the alarm and returns True, and main counts a success.
PtReturn ==
    /\ pc = "pt_done"
    /\ IF driver = "job"
       THEN /\ pc' = "idle" /\ driver' = "none" /\ cur' = NoFund
            /\ UNCHANGED <<alarm, tally, prevRun>>
       ELSE /\ pc' = "iter" /\ alarm' = "off"
            /\ tally' = [tally EXCEPT !.successful = @ + 1]
            /\ prevRun' = [ticker |-> cur.ticker, end_date |-> cur.end_date,
                           outcomes |-> outcomes, rows |-> RowsOf(store, cur.ticker)]
            /\ UNCHANGED <<driver, cur>>
    /\ filings' = <<>> /\ idx' = 1 /\ outcomes' = NoOutcomes
    /\ UNCHANGED <<threads, impl, input, output, store, queue, today>>

\* The alarm goes off inside a try block whose except Exception catches the
\* TimeoutError the handler raises: in get_historical_filings, which then returns
\* no filing; in process_ticker_xml, which then returns no record; in the sleep
\* after a filing, where process_ticker goes on to the next filing.
AlarmInTry ==
    /\ driver = "worker" /\ alarm = "armed"
    /\ pc \in {"pt_locate", "xml_fetch", "sleep_filing"}
    /\ alarm' = "fired"
    /\ CASE pc = "pt_locate" ->
                /\ filings' = <<>> /\ idx' = 1
                /\ outcomes' = [outcomes EXCEPT !.index = "alarm"]
                /\ pc' = "pt_done"
         [] pc = "xml_fetch" ->
                /\ outcomes' = [outcomes EXCEPT !.docs = Append(@, "alarm")]
                /\ pc' = "sleep_filing"
                /\ UNCHANGED <<filings, idx>>
         [] pc = "sleep_filing" ->
                /\ pc' = AfterFiling
                /\ idx' = idx + 1
                /\ UNCHANGED <<filings, outcomes>>
    /\ UNCHANGED <<threads, impl, input, output, store, driver, cur, queue, tally, prevRun, today>>

\* The alarm goes off outside every try block of process_ticker (in
\* clear_ticker_data, which the worker has run once already, or in the sleep after
\* a batch): the TimeoutError leaves process_ticker.
AlarmOutsideTry ==
    /\ driver = "worker" /\ alarm = "armed"
    /\ pc \in {"pt_clear", "sleep_batch"}
    /\ alarm' = "fired"
    /\ pc' = "pt_raised"
    /\ UNCHANGED <<threads, impl, input, output, store, driver, cur, filings, idx, outcomes,
                   queue, tally, prevRun, today>>

\* except TimeoutError of process_ticker_with_timeout: the alarm is cancelled,
\* False is returned and main counts a timeout.
WrapperCatch ==
    /\ pc = "pt_raised"
    /\ alarm' = "off"
    /\ tally' = [tally EXCEPT !.timeout = @ + 1]
    /\ pc' = "iter"
    /\ prevRun' = NoRun
    /\ filings' = <<>> /\ idx' = 1 /\ outcomes' = NoOutcomes
    /\ UNCHANGED <<threads, impl, input, output, store, driver, cur, queue, today>>

\* Midnight passes.
Tick ==
    /\ today = Days[1]
    /\ today' = Days[2]
    /\ UNCHANGED <<threads, impl, input, output, store, pc, driver, cur, filings, idx, outcomes,
                   alarm, queue, tally, prevRun>>

Next ==
    \/ EnqueueJob \/ BaseLookupFailure \/ StartWorker \/ Construct \/ WorkerIter \/ WorkerEnd
    \/ PtClear \/ PtLocate \/ XmlFetch \/ SleepFiling \/ SleepBatch \/ PtReturn
    \/ AlarmInTry \/ AlarmOutsideTry \/ WrapperCatch \/ Tick

Spec == Init /\ [][Next]_vars

---------------------------------------------------------------------------
(* The drivers without SIGALRM: main of batch_load_to_db.py, which calls   *)
(* process_ticker in its own thread of control, and main of                *)
(* simple_timeout_worker.py, which runs it in a daemon thread and waits    *)
(* for the thread with a timeout.  threads holds one record for every      *)
(* activation of process_ticker that has been started and has not been     *)
(* waited for to its end: its arguments, its position, the filings it      *)
(* located, and whether the worker has given up waiting for it.            *)

\* Longest list of tickers one of these drivers is started with.
MaxTickers == 2

\* How the requests of these runs are answered.
BatchKinds == {"ok", "timeout"}

\* A counter of the summary advanced by one that only counts the successes
Counted_successes_only(t, outcome) ==
    IF outcome = "successful" THEN [t EXCEPT ![outcome] = @ + 1] ELSE t

\* successful_tickers += 1, or timeout_tickers += 1 with
\* timeout_list.append(ticker), or failed_tickers += 1 with
\* failed_list.append(ticker), for the ticker of the pass
Counted(t, outcome) ==
    LET ticker == t.attempted[Len(t.attempted)]
    IN  [t EXCEPT ![outcome] = @ + 1,
                  !.timeout_list = IF outcome = "timeout" THEN Append(@, ticker) ELSE @,
                  !.failed_list = IF outcome = "failed" THEN Append(@, ticker) ELSE @]

\* The counting of main with a False of the wrapper taken as a failure
counted_as_failure_on_false(success) == IF success THEN "successful" ELSE "failed"

\* if success: successful_tickers += 1, else: timeout_tickers += 1
counted_as(success) == IF success THEN "successful" ELSE "timeout"

\* The activation of process_ticker(ticker, cik, series_id=series_id) at its
\* first statement.
Activation(t) ==
    [fund |-> Fund(t), pc |-> "pt_clear", filings |-> <<>>, idx |-> 1,
     abandoned |-> FALSE]

\* Whether an activation has come to its end, by return or by exception.
Ended(th) == th.pc \in {"pt_done", "pt_raised"}

BatchInit ==
    /\ impl = "manual"
    /\ store = {}
    /\ pc = "idle"
    /\ driver = "none"
    /\ queue = <<>>
    /\ input = [tickers |-> <<>>]
    /\ tally = NoTally
    /\ threads = <<>>
    /\ today = Days[1]
    /\ output = Unused /\ cur = Unused /\ filings = Unused /\ idx = Unused
    /\ outcomes = Unused /\ alarm = Unused /\ prevRun = Unused

\* main reads its tickers from etf_tickers.csv.
StartBatch ==
    /\ pc = "idle"
    /\ driver' \in {"plain", "threaded"}
    /\ \E q \in SeqsUpTo(Tickers, MaxTickers) \ {<<>>} :
          /\ queue' = q
          /\ input' = [tickers |-> q]
    /\ tally' = NoTally
    /\ pc' = "construct"
    /\ UNCHANGED <<threads, impl, output, store, cur, filings, idx, outcomes, alarm,
                   prevRun, today>>

\* extractor = ETFSwapDataExtractor(): __init__ calls setup_database
BatchConstruct ==
    /\ pc = "construct" /\ driver \in {"plain", "threaded"}
    /\ store' = setup_database(store)
    /\ pc' = "iter"
    /\ UNCHANGED <<threads, impl, input, output, driver, cur, filings, idx, outcomes,
                   alarm, queue, tally, prevRun, today>>

\* One pass of the loop of batch_load_to_db.py up to the call of process_ticker
PlainIter ==
    /\ pc = "iter" /\ driver = "plain" /\ queue /= <<>>
    /\ queue' = Tail(queue)
    /\ tally' = [tally EXCEPT !.attempted = Append(@, Head(queue))]
    /\ threads' = Append(threads, Activation(Head(queue)))
    /\ pc' = "calling"
    /\ UNCHANGED <<impl, input, output, store, driver, cur, filings, idx, outcomes,
                   alarm, prevRun, today>>

\* process_ticker has returned to the loop of batch_load_to_db.py, or has raised
\* into its except clause.
PlainReturn ==
    /\ pc = "calling" /\ driver = "plain"
    /\ Ended(threads[Len(threads)])
    /\ tally' = Counted(tally, IF threads[Len(threads)].pc = "pt_done"
                               THEN "successful" ELSE "failed")
    /\ threads' = SubSeq(threads, 1, Len(threads) - 1)
    /\ pc' = "iter"
    /\ UNCHANGED <<impl, input, output, store, driver, cur, filings, idx, outcomes,
                   alarm, queue, prevRun, today>>

\* One pass of the loop of simple_timeout_worker.py up to thread.join: the data
\* of the ticker is cleared, and process_ticker_with_threading_timeout starts
\* the daemon thread.
ThreadedIter ==
    /\ pc = "iter" /\ driver = "threaded" /\ queue /= <<>>
    /\ queue' = Tail(queue)
    /\ tally' = [tally EXCEPT !.attempted = Append(@, Head(queue))]
    /\ store' = clear_ticker_data(store, Head(queue))
    /\ threads' = Append(threads, Activation(Head(queue)))
    /\ pc' = "joining"
    /\ UNCHANGED <<impl, input, output, driver, cur, filings, idx, outcomes, alarm,
                   prevRun, today>>

\* extractor.clear_ticker_data(ticker) of the loop raises (sqlite3 reports a
\* locked database or a failed write): the except clause of the loop counts the
\* ticker as failed.
ThreadedIterFails ==
    /\ pc = "iter" /\ driver = "threaded" /\ queue /= <<>>
    /\ queue' = Tail(queue)
    /\ tally' = Counted([tally EXCEPT !.attempted = Append(@, Head(queue))], "failed")
    /\ UNCHANGED <<threads, impl, input, output, store, pc, driver, cur, filings, idx,
                   outcomes, alarm, prevRun, today>>

\* thread.join(timeout=300) returns with the thread at its end: True for
\* result['success'], False for an exception, which main counts as a timeout.
Join ==
    /\ pc = "joining"
    /\ Ended(threads[Len(threads)])
    /\ tally' = Counted(tally, counted_as(threads[Len(threads)].pc = "pt_done"))
    /\ threads' = SubSeq(threads, 1, Len(threads) - 1)
    /\ pc' = "iter"
    /\ UNCHANGED <<impl, input, output, store, driver, cur, filings, idx, outcomes,
                   alarm, queue, prevRun, today>>

\* thread.join(timeout=300) returns with the thread alive: False is returned and
\* main counts a timeout.  Nothing stops the thread.
JoinTimeout ==
    /\ pc = "joining"
    /\ ~Ended(threads[Len(threads)])
    /\ tally' = Counted(tally, counted_as(FALSE))
    /\ threads' = [threads EXCEPT ![Len(threads)].abandoned = TRUE]
    /\ pc' = "iter"
    /\ UNCHANGED <<impl, input, output, store, driver, cur, filings, idx, outcomes,
                   alarm, queue, prevRun, today>>

\* process_ticker of activation k: clear_ticker_data and the defaults of
\* start_date and end_date
ThreadClear(k) ==
    /\ threads[k].pc = "pt_clear"
    /\ store' = clear_ticker_data(store, threads[k].fund.ticker)
    /\ threads' = [threads EXCEPT ![k].pc = "pt_locate",
                                  ![k].fund.start_date = "2022-01-01",
                                  ![k].fund.end_date = today]
    /\ UNCHANGED <<impl, input, output, pc, driver, cur, filings, idx, outcomes,
                   alarm, queue, tally, prevRun, today>>

\* clear_ticker_data of activation k raises, and the exception leaves
\* process_ticker.
ThreadClearFails(k) ==
    /\ threads[k].pc = "pt_clear"
    /\ threads' = [threads EXCEPT ![k].pc = "pt_raised"]
    /\ UNCHANGED <<impl, input, output, store, pc, driver, cur, filings, idx, outcomes,
                   alarm, queue, tally, prevRun, today>>

\* process_ticker of activation k: get_historical_filings
ThreadLocate(k) ==
    /\ threads[k].pc = "pt_locate"
    /\ \E kind \in BatchKinds :
          LET fund == threads[k].fund
              fs == get_historical_filings([kind |-> kind, data |-> SecIndex(fund.cik)],
                                           fund.cik, fund.start_date, fund.end_date)
          IN  threads' = [threads EXCEPT ![k].filings = fs, ![k].idx = 1,
                                         ![k].pc = IF fs = <<>> THEN "pt_done"
                                                   ELSE "xml_fetch"]
    /\ UNCHANGED <<impl, input, output, store, pc, driver, cur, filings, idx, outcomes,
                   alarm, queue, tally, prevRun, today>>

\* process_ticker of activation k: process_ticker_xml for its next filing and
\* the sleeps after it
ThreadFetch(k) ==
    /\ threads[k].pc = "xml_fetch"
    /\ \E kind \in BatchKinds :
          LET th == threads[k]
              filing == th.filings[th.idx]
              response == [kind |-> kind, doc |-> SecDocument(filing.filing_url)]
          IN  store' = process_ticker_xml(store, response, th.fund.ticker,
                                          filing.filing_url, filing.filing_date,
                                          th.fund.series_id, today)
    /\ threads' = [threads EXCEPT ![k].idx = @ + 1,
                                  ![k].pc = IF threads[k].idx = Len(threads[k].filings)
                                            THEN "pt_done" ELSE "xml_fetch"]
    /\ UNCHANGED <<impl, input, output, pc, driver, cur, filings, idx, outcomes,
                   alarm, queue, tally, prevRun, today>>

\* A step of one of the activations of process_ticker
ThreadStep ==
    \E k \in DOMAIN threads :
        ThreadClear(k) \/ ThreadClearFails(k) \/ ThreadLocate(k) \/ ThreadFetch(k)

\* The loop is over: main logs its summary and returns, and the interpreter
\* exits, which ends the daemon threads.
BatchEnd ==
    /\ pc = "iter" /\ driver \in {"plain", "threaded"} /\ queue = <<>>
    /\ pc' = "idle"
    /\ driver' = "none"
    /\ input' = [tickers |-> <<>>]
    /\ tally' = NoTally
    /\ threads' = <<>>
    /\ UNCHANGED <<impl, output, store, cur, filings, idx, outcomes, alarm, queue,
                   prevRun, today>>

BatchNext ==
    \/ StartBatch \/ BatchConstruct \/ PlainIter \/ PlainReturn
    \/ ThreadedIter \/ ThreadedIterFails \/ Join \/ JoinTimeout
    \/ ThreadStep \/ BatchEnd

BatchSpec == BatchInit /\ [][BatchNext]_vars

---------------------------------------------------------------------------
(* The table ticker_mappings of etf_swap_extractor_manual.py and the two   *)
(* operations that write it.  The table is the set of its rows without     *)
(* last_updated; ticker is its primary key.  In MapSpec the variable store *)
(* holds this table.                                                       *)

\* INSERT OR REPLACE INTO ticker_mappings: the row of the same ticker is replaced.
ReplaceMapping(table, row) == {r \in table : r.ticker /= row.ticker} \cup {row}

\* add_ticker_mapping: the arguments are bound as they are given.
add_ticker_mapping(table, ticker, cik, series_id, company_name, start_date) ==
    ReplaceMapping(table, [ticker |-> ticker, cik |-> cik, company_name |-> company_name,
                           series_id |-> series_id,
                           start_date |-> Or(start_date, "2022-01-01")])

\* Whether pandas reads a column of these cells as float64: a blank cell is NaN,
\* which an integer column cannot hold.
FloatColumn(cells) == \E i \in DOMAIN cells : cells[i] = ""

\* str(row['cik']) for a cell of digits that pandas has read as a number: the
\* leading zeros are gone, a float gets ".0" and a blank cell is nan.
CikStr(cell, as_float) ==
    IF cell = "" THEN "nan"
    ELSE IF as_float THEN ToString(DigitsVal(cell)) \o ".0"
    ELSE ToString(DigitsVal(cell))

RECURSIVE ImportRows(_, _, _, _)
\* for _, row in df.iterrows(): INSERT OR REPLACE of the row
ImportRows(table, rows, as_float, i) ==
    IF i > Len(rows) THEN table
    ELSE ImportRows(ReplaceMapping(table,
                        [ticker |-> UpperCase(rows[i].ticker),
                         cik |-> ZFill(CikStr(rows[i].cik, as_float), 10),
                         company_name |-> None,
                         series_id |-> rows[i].series_id,
                         start_date |-> "2022-01-01"]),
                    rows, as_float, i + 1)

\* import_tickers_from_csv for a file with the columns ticker, cik, series_id
import_tickers_from_csv(table, rows) ==
    ImportRows(table, rows, FloatColumn([i \in DOMAIN rows |-> rows[i].cik]), 1)

\* Most rows in a CSV file.
MaxRows == 2

\* The registrant identifiers add_ticker_mapping is called with: as EDGAR writes
\* them and as a number is written.
CikArgs == {"0001424958", "1424958"}

\* The rows of a CSV file: a ticker, the cell of its cik column (padded, not
\* padded or blank) and a series.
CsvRows ==
    [ticker : {"tsll", "NVDL"}, cik : {"0001424958", "1771146", ""},
     series_id : {"S000001"}]

MapInit ==
    /\ impl = "manual"
    /\ store = {}
    /\ input = [op |-> "none"]
    /\ pc = "call"
    /\ output = Unused /\ driver = Unused /\ cur = Unused /\ filings = Unused
    /\ idx = Unused /\ outcomes = Unused /\ alarm = Unused /\ queue = Unused
    /\ tally = Unused /\ prevRun = Unused /\ today = Unused
    /\ threads = Unused

\* extractor.add_ticker_mapping(ticker, cik, series_id)
AddTickerMapping ==
    /\ \E t \in Tickers, c \in CikArgs :
          /\ store' = add_ticker_mapping(store, t, c, Fund(t).series_id, None, None)
          /\ input' = [op |-> "add_ticker_mapping", ticker |-> t, cik |-> c]
    /\ pc' = "returned"
    /\ UNCHANGED <<threads, impl, output, driver, cur, filings, idx, outcomes, alarm, queue,
                   tally, prevRun, today>>

\* extractor.import_tickers_from_csv(csv_path)
ImportTickersFromCsv ==
    /\ \E rows \in SeqsUpTo(CsvRows, MaxRows) \ {<<>>} :
          /\ store' = import_tickers_from_csv(store, rows)
          /\ input' = [op |-> "import_tickers_from_csv", rows |-> rows]
    /\ pc' = "returned"
    /\ UNCHANGED <<threads, impl, output, driver, cur, filings, idx, outcomes, alarm, queue,
                   tally, prevRun, today>>

MapNext == AddTickerMapping \/ ImportTickersFromCsv

MapSpec == MapInit /\ [][MapNext]_vars

---------------------------------------------------------------------------
(* One database path used by one extractor instance after another, as the  *)
(* jobs of app.py do: each job constructs ETFSwapDataExtractor(), writes,  *)
(* and ends.  In DbSpec the variable store holds both tables of the file,  *)
(* [swap_data, ticker_mappings], and input holds what the file held when   *)
(* the instance was constructed.                                           *)

DbInit ==
    /\ impl \in {"manual", "fixed"}
    /\ store = [swap_data |-> {}, ticker_mappings |-> {}]
    /\ input = [op |-> "none"]
    /\ pc = "closed"
    /\ output = Unused /\ driver = Unused /\ cur = Unused /\ filings = Unused
    /\ idx = Unused /\ outcomes = Unused /\ alarm = Unused /\ queue = Unused
    /\ tally = Unused /\ prevRun = Unused /\ today = Unused
    /\ threads = Unused

\* extractor = ETFSwapDataExtractor(): __init__ calls setup_database
DbConstruct ==
    /\ pc = "closed"
    /\ store' = [swap_data |-> setup_database(store.swap_data),
                 ticker_mappings |-> setup_database(store.ticker_mappings)]
    /\ input' = [op |-> "construct", before |-> store]
    /\ pc' = "constructed"
    /\ UNCHANGED <<threads, impl, output, driver, cur, filings, idx, outcomes, alarm, queue,
                   tally, prevRun, today>>

\* The instance saves one extracted entry of a ticker.
DbSave ==
    /\ pc \in {"constructed", "open"}
    /\ \E t \in Tickers, cp \in Counterparties :
          LET swap_data == <<[SwapEntry(impl, cp, Flt(15, 2), "2024-03-31")
                                 EXCEPT !.ticker = t]>>
          IN  store' = [store EXCEPT !.swap_data =
                           IF impl = "manual"
                           THEN save_swap_data_specific(@, swap_data, "2024-05-01",
                                                        "2024-03-31")
                           ELSE save_swap_data_specific_fixed(@, swap_data, "2024-05-01",
                                                              "2024-03-31")]
    /\ input' = [op |-> "save"]
    /\ pc' = "open"
    /\ UNCHANGED <<threads, impl, output, driver, cur, filings, idx, outcomes, alarm, queue,
                   tally, prevRun, today>>

\* The instance registers a ticker.
DbAddMapping ==
    /\ pc \in {"constructed", "open"}
    /\ \E t \in Tickers, c \in CikArgs :
          store' = [store EXCEPT !.ticker_mappings =
                       add_ticker_mapping(@, t, c, Fund(t).series_id, None, None)]
    /\ input' = [op |-> "add_ticker_mapping"]
    /\ pc' = "open"
    /\ UNCHANGED <<threads, impl, output, driver, cur, filings, idx, outcomes, alarm, queue,
                   tally, prevRun, today>>

\* The job ends and its instance with it; the file stays.
DbClose ==
    /\ pc \in {"constructed", "open"}
    /\ input' = [op |-> "none"]
    /\ pc' = "closed"
    /\ UNCHANGED <<threads, impl, output, store, driver, cur, filings, idx, outcomes, alarm,
                   queue, tally, prevRun, today>>

DbNext == DbConstruct \/ DbSave \/ DbAddMapping \/ DbClose

DbSpec == DbInit /\ [][DbNext]_vars

---------------------------------------------------------------------------
(* The relational adapter etf_db.py: the table swap_data of a PostgreSQL   *)
(* database.  Here a row carries its id, the value of the sequence behind  *)
(* the SERIAL column, so that two rows equal in every bound column are two *)
(* rows.  In AdapterSpec the variable store holds [swap_data, id_seq].     *)

\* Most INSERT statements sent to the database in one behaviour.
MaxInserts == 3

\* swap['ticker'], swap['filing_date'], swap['period_of_report']: KeyError for
\* a record without one of them
AdapterKeysPresent(swap) ==
    {"ticker", "filing_date", "period_of_report"} \subseteq DOMAIN swap

\* The row insert_swap_data binds, with the id the sequence gives it.
RowAdapter(swap, id) ==
    [id |-> id,
     ticker |-> swap.ticker,
     filing_date |-> swap.filing_date,
     period_of_report |-> swap.period_of_report,
     designated_reference_portfolio |-> GetText(swap, "Designated Reference Portfolio"),
     index_identifier |-> GetText(swap, "index_identifier"),
     counterparty_name |-> GetText(swap, "counterparty_name"),
     fixed_or_floating |-> GetText(swap, "fixed_or_floating"),
     floating_rt_index |-> GetText(swap, "floating_rt_index"),
     floating_rt_spread |-> GetNum(swap, "floating_rt_spread"),
     notional_amt |-> GetNum(swap, "notional_amt"),
     filing_url |-> GetText(swap, "filing_url")]

\* insert_swap_data: INSERT ... ON CONFLICT (ticker, filing_date,
\* counterparty_name, notional_amt) DO NOTHING, committed.  The sequence gives
\* its value before the constraints are looked at and is never set back; a
\* violated NOT NULL raises and the connection rolls back.
insert_swap_data(db, swap) ==
    IF ~AdapterKeysPresent(swap) THEN [db |-> db, raised |-> TRUE]
    ELSE LET r == RowAdapter(swap, db.id_seq)
             next == [db EXCEPT !.id_seq = @ + 1]
         IN  IF ~NotNullOk(r) THEN [db |-> next, raised |-> TRUE]
             ELSE IF Conflicts(db.swap_data, r) /= {} THEN [db |-> next, raised |-> FALSE]
             ELSE [db |-> [next EXCEPT !.swap_data = @ \cup {r}], raised |-> FALSE]

\* The records insert_swap_data is called with: with a counterparty and
\* without the key, with either spread; with ticker None; without filing_date.
AdapterSwaps ==
    LET full(spread) ==
            [ticker |-> "TSLL", filing_date |-> "2024-05-01",
             period_of_report |-> "2024-03-31", counterparty_name |-> "BANK A",
             fixed_or_floating |-> "floating", floating_rt_index |-> "OBFR01",
             floating_rt_spread |-> spread, notional_amt |-> Flt(1000000, 0),
             filing_url |-> "primary_doc.xml"]
        anonymous(spread) ==
            [ticker |-> "TSLL", filing_date |-> "2024-05-01",
             period_of_report |-> "2024-03-31",
             fixed_or_floating |-> "floating", floating_rt_index |-> "OBFR01",
             floating_rt_spread |-> spread, notional_amt |-> Flt(1000000, 0),
             filing_url |-> "primary_doc.xml"]
    IN  {full(s) : s \in Spreads} \cup {anonymous(s) : s \in Spreads}
        \cup {[full(Flt(15, 2)) EXCEPT !.ticker = None]}
        \cup {[ticker |-> "TSLL", period_of_report |-> "2024-03-31",
                counterparty_name |-> "BANK A", notional_amt |-> Flt(1000000, 0)]}

AdapterInit ==
    /\ impl = "adapter"
    /\ store = [swap_data |-> {}, id_seq |-> 1]
    /\ input = [op |-> "none"]
    /\ pc = "call"
    /\ output = Unused /\ driver = Unused /\ cur = Unused /\ filings = Unused
    /\ idx = Unused /\ outcomes = Unused /\ alarm = Unused /\ queue = Unused
    /\ tally = Unused /\ prevRun = Unused /\ today = Unused
    /\ threads = Unused

\* create_table(): CREATE TABLE IF NOT EXISTS leaves the table that exists
CreateTable ==
    /\ input' = [op |-> "create_table"]
    /\ pc' = "created"
    /\ UNCHANGED <<threads, impl, output, store, driver, cur, filings, idx, outcomes, alarm,
                   queue, tally, prevRun, today>>

\* insert_swap_data(swap)
InsertCall ==
    /\ store.id_seq <= MaxInserts
    /\ \E swap \in AdapterSwaps :
       \E r \in {insert_swap_data(store, swap)} :
          /\ store' = r.db
          /\ input' = swap
          /\ pc' = IF r.raised THEN "raised" ELSE "returned"
    /\ UNCHANGED <<threads, impl, output, driver, cur, filings, idx, outcomes, alarm, queue,
                   tally, prevRun, today>>

AdapterNext == CreateTable \/ InsertCall

AdapterSpec == AdapterInit /\ [][AdapterNext]_vars

---------------------------------------------------------------------------
(* Direct calls of _extract_specific_swap_info of                          *)
(* etf_swap_extractor_manual.py on one candidate entry, and of its helper  *)
(* find_field_value on the entry for one logical field.                    *)

\* Longest list of descendant elements with text in a generated entry.
MaxChildren == 2

\* Descendants: counterparty and notional under their first and later tag
\* names, in several namespaces, with text, without text, with blank text and
\* with text float() refuses.
AliasChildren ==
    {Child("nport", "counterpartyName", "BANK A"),
     Child("com", "counterpartyName", "BANK C"),
     Child("", "counterpartyName", " BANK D "),
     Child("nport", "counterpartyName", ""),
     Child("nport", "counterpartyName", "  "),
     Child("nport", "ctrPtyName", "BANK B"),
     Child("nport", "notionalAmt", "$1,000,000.00"),
     Child("nport", "notionalAmt", "n/a"),
     Child("nport", "notional", "50%"),
     Child("nport", "name", "Tesla Inc")}

\* Attributes of floatingPmntDesc: none of the element, all three, a rate index
\* outside the list with a spread in percent, an empty rate index with a spread
\* that is no number, and no spread.
AttribChoices ==
    {<<>>,
     <<[fixedOrFloating |-> "floating", floatingRtIndex |-> "OBFR01",
        floatingRtSpread |-> "0.15"]>>,
     <<[fixedOrFloating |-> "floating", floatingRtIndex |-> "LIBOR",
        floatingRtSpread |-> "0.15%"]>>,
     <<[fixedOrFloating |-> "floating", floatingRtIndex |-> "",
        floatingRtSpread |-> "n/a"]>>,
     <<[fixedOrFloating |-> "floating", floatingRtIndex |-> "FEDL01"]>>}

\* The tags of the entries given to the function: found by the first, the second
\* and the third candidate path.
ElementTags == EntryTags \cup {"derivative"}

Elements ==
    {[ns |-> "nport", tag |-> t, children |-> c, fpd |-> f] :
        t \in ElementTags, c \in SeqsUpTo(AliasChildren, MaxChildren), f \in AttribChoices}

ExtractInit ==
    /\ impl = "manual"
    /\ input \in [element : Elements, field : {"counterparty_name", "notional_amt"},
                  ticker : {"TSLL"}, filing_url : {"primary_doc.xml"}]
    /\ output = <<>>
    /\ pc = "call"
    /\ store = Unused /\ driver = Unused /\ cur = Unused /\ filings = Unused
    /\ idx = Unused /\ outcomes = Unused /\ alarm = Unused /\ queue = Unused
    /\ tally = Unused /\ prevRun = Unused /\ today = Unused
    /\ threads = Unused

\* swap_info = self._extract_specific_swap_info(element, namespaces, ticker, filing_url)
ExtractCall ==
    /\ pc = "call"
    /\ output' = extract_specific_swap_info(impl, input.element, input.ticker,
                                            input.filing_url)
    /\ pc' = "extracted"
    /\ UNCHANGED <<threads, impl, input, store, driver, cur, filings, idx, outcomes, alarm,
                   queue, tally, prevRun, today>>

\* value = find_field_value(field_variations, element, namespaces)
FindCall ==
    /\ pc = "call"
    /\ output' = <<find_field_value(field_mappings[input.field], input.element)>>
    /\ pc' = "found"
    /\ UNCHANGED <<threads, impl, input, store, driver, cur, filings, idx, outcomes, alarm,
                   queue, tally, prevRun, today>>

\* The keyword gate alone: has_swap_indicators as _extract_specific_swap_info
\* computes it from ET.tostring(element)
GateCall ==
    /\ pc = "call"
    /\ output' = <<has_swap_indicators(input.element)>>
    /\ pc' = "gated"
    /\ UNCHANGED <<threads, impl, input, store, driver, cur, filings, idx, outcomes, alarm,
                   queue, tally, prevRun, today>>

ExtractNext == ExtractCall \/ FindCall \/ GateCall

ExtractSpec == ExtractInit /\ [][ExtractNext]_vars

---------------------------------------------------------------------------
(* The loops of process_ticker of etf_swap_extractor_manual.py over the    *)
(* list the locator returned, with process_ticker_xml observed from        *)
(* outside: output is the list of its calls, each with the number of the   *)
(* batch it was made in, the filing passed and how the call ended.  idx is *)
(* the loop variable i of range(0, len(filings), batch_size), queue the    *)
(* part of the batch still to come.                                        *)

\* Longest list of filings the locator returns in these runs.
MaxFilings == 6

\* The k-th newest filing of the fund: one a month, counted back from December.
FilingRef(k) ==
    [filing_date |-> "2024-" \o ZFill(ToString(13 - k), 2) \o "-28",
     filing_url |-> XmlUrl("0001424958", "00014249582400" \o ZFill(ToString(13 - k), 4))]

\* What get_historical_filings returns for n filings: sorted by filing_date,
\* newest first.
LocatorList(n) == [k \in 1..n |-> FilingRef(k)]

\* range(0, len(filings), batch_size) with the step taken as 1
NextBatchStart_by_one(i) == i + 1

\* The next value of range(0, len(filings), batch_size) after i
NextBatchStart(i) == i + batch_size

\* filings[i:i + batch_size], i counted from 0
BatchSlice(list, i) ==
    SubSeq(list, i + 1, IF i + batch_size < Len(list) THEN i + batch_size ELSE Len(list))

LoopInit ==
    /\ impl = "manual"
    /\ \E n \in 0..MaxFilings : filings = LocatorList(n)
    /\ idx = 0
    /\ queue = <<>>
    /\ output = <<>>
    /\ pc = "range"
    /\ input = Unused /\ store = Unused /\ driver = Unused /\ cur = Unused
    /\ outcomes = Unused /\ alarm = Unused /\ tally = Unused /\ prevRun = Unused
    /\ today = Unused /\ threads = Unused

\* for i in range(0, len(filings), batch_size): batch = filings[i:i + batch_size]
BatchStart ==
    /\ pc = "range" /\ idx < Len(filings)
    /\ queue' = BatchSlice(filings, idx)
    /\ pc' = "batch"
    /\ UNCHANGED <<threads, impl, input, output, store, driver, cur, filings, idx, outcomes,
                   alarm, tally, prevRun, today>>

\* for filing in batch: process_ticker_xml is called for the filing and returns,
\* or raises into the except clause of the loop, which logs and continues.
FilingCall ==
    /\ pc = "batch" /\ queue /= <<>>
    /\ \E ended \in {"returned", "raised"} :
          output' = Append(output, [batch |-> idx \div batch_size + 1,
                                    filing |-> Head(queue), ended |-> ended])
    /\ queue' = Tail(queue)
    /\ UNCHANGED <<threads, impl, input, store, pc, driver, cur, filings, idx, outcomes,
                   alarm, tally, prevRun, today>>

\* The batch is through: time.sleep(0.5), and range gives its next value.
BatchSleep ==
    /\ pc = "batch" /\ queue = <<>>
    /\ idx' = NextBatchStart(idx)
    /\ pc' = "range"
    /\ UNCHANGED <<threads, impl, input, output, store, driver, cur, filings, outcomes,
                   alarm, queue, tally, prevRun, today>>

\* range is exhausted: process_ticker logs that it finished and returns.
LoopEnd ==
    /\ pc = "range" /\ idx >= Len(filings)
    /\ pc' = "pt_done"
    /\ UNCHANGED <<threads, impl, input, output, store, driver, cur, filings, idx, outcomes,
                   alarm, queue, tally, prevRun, today>>

LoopNext == BatchStart \/ FilingCall \/ BatchSleep \/ LoopEnd

LoopSpec == LoopInit /\ [][LoopNext]_vars

---------------------------------------------------------------------------
(* Claims about the parser, under ParseSpec.                               *)

\* C4: whenever a series filter is supplied and the document's series identifier
\* is absent or differs from it, the parser returns an empty sequence.
C4_SeriesFilterExclusionary ==
    (pc = "returned" /\ input.series_id /= None /\ input.doc.seriesId /= input.series_id)
        => output = <<>>

\* A filing of another series whose entries the parser would have returned had no
\* filter been given, and from which it returned nothing.
C4_Witness ==
    /\ pc = "returned"
    /\ input.series_id = "S000002"
    /\ input.doc.seriesId = "S000001"
    /\ parse_nport_xml_specific(impl, input.doc, input.ticker, input.filing_url, None) /= <<>>
    /\ output = <<>>

\* The scenario document of C8: one derivativeInstrument entry with a counterparty
\* name, notional "1,000,000.00" and a floating payment description with only the
\* attributes fixedOrFloating="floating" and floatingRtSpread="0.15".
ScenarioDoc(doc) ==
    /\ doc.wellformed
    /\ Len(doc.entries) = 1
    /\ doc.entries[1].tag = "derivativeInstrument"
    /\ \E i \in DOMAIN doc.entries[1].children :
          doc.entries[1].children[i] = Child("nport", "counterpartyName", "BANK A")
    /\ \E i \in DOMAIN doc.entries[1].children :
          doc.entries[1].children[i] = Child("nport", "notionalAmt", "1,000,000.00")
    /\ doc.entries[1].fpd = <<[fixedOrFloating |-> "floating", floatingRtSpread |-> "0.15"]>>

\* C8: for the scenario document the parser returns exactly one record, with
\* notional amount 1000000.0 and floating rate spread 0.15.
C8_ScenarioYieldsOneRecord ==
    (pc = "returned" /\ input.series_id = None /\ ScenarioDoc(input.doc))
        => /\ Len(output) = 1
           /\ output[1].notional_amt = Flt(1000000, 0)
           /\ output[1].floating_rt_spread = Flt(15, 2)

\* An entry whose serialized text, lower-cased, contains none of the keywords.
KeywordFree(element) ==
    LET text == Lower(tostring(element))
    IN  \A k \in DOMAIN swap_indicators : ~Contains(text, Lower(swap_indicators[k]))

\* C9: an entry without any swap-indicating keyword is discarded: the parser
\* returns at most one record per entry that has a keyword, so none for a document
\* without a keyword in any entry.
C9_KeywordGate ==
    pc = "returned" =>
        Len(output) <= Cardinality({i \in DOMAIN input.doc.entries :
                                        ~KeywordFree(input.doc.entries[i])})

\* A well-formed document of the right series with a keyword-free entry, parsed to
\* no record.
C9_Witness ==
    /\ pc = "returned"
    /\ input.doc.wellformed
    /\ input.series_id = None
    /\ Len(input.doc.entries) = 1
    /\ KeywordFree(input.doc.entries[1])
    /\ output = <<>>

\* C15: the parser never raises past its boundary: for every document, those
\* that are not well-formed XML or not UTF-8 included, it returns a list, and the
\* list is empty when the bytes could not be decoded or parsed.
C15_ParserNeverRaises ==
    /\ pc /= "raised"
    /\ pc = "returned" =>
          /\ DOMAIN output = 1..Len(output)
          /\ (~input.doc.wellformed \/ ~input.doc.utf8) => output = <<>>

C15_Witness ==
    /\ pc = "returned"
    /\ ~input.doc.utf8 /\ input.doc.entries = <<FullEntry>>
    /\ input.series_id = None
    /\ output = <<>>

\* C19: every record the parser of etf_swap_extractor_manual.py returns has
\* counterparty_name, fixed_or_floating, floating_rt_index and notional_amt, each
\* with a value that is not None.
C19_StrictAcceptance ==
    (pc = "returned" /\ impl = "manual") =>
        \A k \in DOMAIN output :
            \A f \in required_fields :
                /\ f \in DOMAIN output[k]
                /\ IF f = "notional_amt" THEN output[k][f] /= NoneVal
                   ELSE output[k][f] /= None

---------------------------------------------------------------------------
(* Claims about the filing locator, under LocSpec.                         *)

\* C5: for every content of the filing index, the sequence the locator returns is
\* sorted by filing_date in descending order, most recent first.
C5_SortedByFilingDateDesc ==
    pc = "returned" =>
        \A i \in 1..(Len(output) - 1) :
            DateVal(output[i].filing_date) >= DateVal(output[i + 1].filing_date)

\* Whether the day d lies in the window of the call.
InWindow(d) ==
    DateVal(input.start_date) <= DateVal(d) /\ DateVal(d) <= DateVal(input.end_date)

\* An index that is not as EDGAR writes it: parallel arrays of unequal length, or
\* a filing date that is no date.
MalformedIndex(d) ==
    \/ Len(d.recent.accessionNumber) /= Len(d.recent.form)
    \/ Len(d.recent.filingDate) /= Len(d.recent.form)
    \/ \E i \in DOMAIN d.recent.filingDate : ~DateOk(d.recent.filingDate[i])
    \/ \E j \in DOMAIN d.files : ~DateOk(d.files[j].filingDate)

\* An index in which the locator comes to read what is not there: an NPORT-P
\* entry without a filing date or with one that is no date, or one in the window
\* without an accession number.
UnreadableIndex(d) ==
    \/ \E i \in DOMAIN d.recent.form :
          /\ d.recent.form[i] = "NPORT-P"
          /\ \/ i > Len(d.recent.filingDate)
             \/ ~DateOk(d.recent.filingDate[i])
             \/ InWindow(d.recent.filingDate[i]) /\ i > Len(d.recent.accessionNumber)
    \/ \E j \in DOMAIN d.files :
          /\ d.files[j].form = "NPORT-P"
          /\ d.files[j].filingDate /= ""
          /\ ~DateOk(d.files[j].filingDate)

\* C14, as stated: the locator of etf_swap_extractor_manual.py never raises to
\* its caller, and it returns the empty sequence for a timeout, a transport
\* error, a status other than 200, a body that is no JSON and every malformed
\* index, parallel arrays of unequal length included.
C14_FailsSoftly ==
    /\ pc /= "raised"
    /\ (pc = "returned" /\ impl = "manual"
          /\ (input.response.kind /= "ok" \/ MalformedIndex(input.response.data)))
        => output = <<>>

\* C14, amended: the same, for the malformed indexes in which the locator comes
\* to read the missing array element or the filing date that is no date.
C14_FailsSoftlyOnError ==
    /\ pc /= "raised"
    /\ (pc = "returned" /\ impl = "manual"
          /\ (input.response.kind /= "ok" \/ UnreadableIndex(input.response.data)))
        => output = <<>>

C14_Witness ==
    /\ pc = "returned" /\ impl = "manual" /\ input.response.kind = "ok"
    /\ Len(input.response.data.recent.form) = 2
    /\ Len(input.response.data.recent.accessionNumber) = 1
    /\ UnreadableIndex(input.response.data)
    /\ output = <<>>

\* The positions of the recent entries the locator is to keep.
KeptRecent(d) ==
    {i \in DOMAIN d.recent.form :
        /\ d.recent.form[i] = "NPORT-P"
        /\ InWindow(d.recent.filingDate[i])
        /\ d.recent.accessionNumber[i] /= ""}

\* The positions of the older entries the locator is to keep.
KeptFiles(d) ==
    {j \in DOMAIN d.files :
        /\ d.files[j].form = "NPORT-P"
        /\ InWindow(d.files[j].filingDate)
        /\ d.files[j].accessionNumber /= ""}

\* The reference of the filing of a day with an accession number.
Reference(filing_date, accession) ==
    [filing_date |-> filing_date,
     filing_url |-> XmlUrl(input.cik, Remove(accession, "-"))]

\* C20: for an index that was fetched and is well-formed, the locator of
\* etf_swap_extractor_manual.py returns one reference for each entry whose form is
\* exactly NPORT-P, whose filing date lies in [start_date, end_date] and whose
\* accession number is not empty, and no other reference.
C20_FilterExactAndComplete ==
    (pc = "returned" /\ impl = "manual" /\ input.response.kind = "ok"
        /\ ~MalformedIndex(input.response.data))
    => LET d == input.response.data
       IN  /\ Len(output) = Cardinality(KeptRecent(d)) + Cardinality(KeptFiles(d))
           /\ {output[k] : k \in DOMAIN output}
                = {Reference(d.recent.filingDate[i], d.recent.accessionNumber[i]) :
                       i \in KeptRecent(d)}
                  \cup {Reference(d.files[j].filingDate, d.files[j].accessionNumber) :
                           j \in KeptFiles(d)}

C20_Witness ==
    /\ pc = "returned" /\ impl = "manual" /\ input.response.kind = "ok"
    /\ input.response.data.recent.form = <<"NPORT-P/A", "NPORT-P", "NPORT-P">>
    /\ input.response.data.recent.filingDate = <<"2024-01-30", "2021-12-31", "2024-12-31">>
    /\ input.response.data.files = <<>>
    /\ output = <<Reference("2024-12-31", AccessionAt(3))>>

---------------------------------------------------------------------------
(* Claims about persistence, under SaveSpec.                               *)

\* The key under which an entry of the last call is stored.
EntryKey(e) ==
    IF "counterparty_name" \in DOMAIN e
    THEN <<e.ticker, input.filing_date, e.counterparty_name, e.notional_amt>>
    ELSE <<e.ticker, input.filing_date, e.counterparty, e.notional_amount>>

\* Whether a row holds the non-key values of an entry.
HoldsValuesOf(r, e) ==
    IF "counterparty_name" \in DOMAIN e
    THEN /\ r.floating_rt_spread = e.floating_rt_spread
         /\ r.floating_rt_index = e.floating_rt_index
         /\ r.fixed_or_floating = e.fixed_or_floating
         /\ r.filing_url = e.filing_url
    ELSE /\ r.floating_rate_spread = e.floating_rate_spread
         /\ r.floating_rate_index = e.floating_rate_index
         /\ r.fixed_or_floating = e.fixed_or_floating
         /\ r.filing_url = e.filing_url

\* The entries of the last call that no later entry of the call overwrites.
LastWritten ==
    {i \in DOMAIN input.swap_data :
        \A j \in DOMAIN input.swap_data :
            j > i => EntryKey(input.swap_data[j]) /= EntryKey(input.swap_data[i])}

\* Whether an entry that has a period field has a period in it.
CarriesPeriod(e) == "period_of_report" \in DOMAIN e => e.period_of_report /= None

\* Whether every entry of the last call has a ticker.
AllWithTicker == \A i \in DOMAIN input.swap_data : input.swap_data[i].ticker /= None

\* C1: after entries with the same (ticker, filing_date, counterparty_name,
\* notional_amount) were saved, in one call or in several, the store holds exactly
\* one record for that key, with the non-key values of the entry written last
\* (stated for entries with a ticker, of documents that carry their period of
\* report).
C1_UpsertKeepsLastWritten ==
    (pc = "returned" /\ AllWithTicker
        /\ \A i \in DOMAIN input.swap_data : CarriesPeriod(input.swap_data[i])) =>
        \A i \in LastWritten :
            /\ Cardinality({r \in store : RowKey(r) = EntryKey(input.swap_data[i])}) = 1
            /\ \A r \in store :
                  RowKey(r) = EntryKey(input.swap_data[i]) => HoldsValuesOf(r, input.swap_data[i])

\* The period of a row of either schema.
RowPeriod(r) == IF "period_of_report" \in DOMAIN r THEN r.period_of_report ELSE r.report_date

\* C7: every persisted record has a filing date and a period of report, and an
\* entry of a document without a period of report is persisted with the filing
\* date as its period.
C7_DatesAlwaysPopulated ==
    /\ \A r \in store : r.filing_date /= None /\ RowPeriod(r) /= None
    /\ (pc = "returned" /\ AllWithTicker) =>
          \A i \in DOMAIN input.swap_data :
              \E r \in store :
                  /\ RowKey(r) = EntryKey(input.swap_data[i])
                  /\ RowPeriod(r) = IF input.period_of_report = None
                                    THEN input.filing_date ELSE input.period_of_report

\* C13: when the insert of a record of a batch fails (here for a record without
\* a ticker), the two copies of save_swap_data_specific leave the store as it was
\* before the call: no record of the batch is persisted.
C13_FailedBatchIsAtomic ==
    [][(pc' = "returned" /\ impl \in {"manual", "fixed"}
          /\ \E i \in DOMAIN input'.swap_data : input'.swap_data[i].ticker = None)
        => store' = store]_vars

---------------------------------------------------------------------------
(* Claims about the ticker mapping, under MapSpec.                         *)

\* C17: every registrant identifier in the table ticker_mappings is a string of
\* exactly ten digits, whichever operation wrote it.
C17_CikIsTenDigits ==
    \A r \in store : Len(r.cik) = 10 /\ AllDigits(r.cik)

---------------------------------------------------------------------------
(* Claims about the pipeline, under Spec.                                  *)

\* A second run of process_ticker for the fund and the date range of the run
\* before it has come to its end.
SecondRunDone ==
    /\ pc = "pt_done"
    /\ prevRun.ticker = cur.ticker
    /\ prevRun.end_date = cur.end_date

C3_JobTouchesOnlyItsTicker ==
    [][driver = "job" =>
          /\ \A r \in store : r.ticker /= cur.ticker => r \in store'
          /\ pc' = "pt_locate" => RowsOf(store', cur.ticker) = {}]_vars

\* The rows the document of filing i gives when it is fetched and saved.
RecordsOfFiling(i) ==
    process_ticker_xml({}, [kind |-> "ok", doc |-> SecDocument(filings[i].filing_url)],
                       cur.ticker, filings[i].filing_url, filings[i].filing_date,
                       cur.series_id, today)

\* C6: a fetch that times out, is answered with another status than 200 or fails
\* in transport never makes process_ticker raise; at its end every filing has
\* been attempted, a filing whose fetch failed has no record in the store, and
\* the records of every filing whose fetch succeeded are in the store.
C6_FailedFilingIsolated ==
    /\ pc = "pt_raised" => alarm = "fired"
    /\ (pc = "pt_done" /\ filings /= <<>>) =>
          /\ Len(outcomes.docs) = Len(filings)
          /\ \A i \in DOMAIN filings :
                IF outcomes.docs[i] = "ok"
                THEN RecordsOfFiling(i) \subseteq store
                ELSE \A r \in store : r.filing_url /= filings[i].filing_url

C6_Witness ==
    /\ pc = "pt_done" /\ Len(filings) = 2
    /\ outcomes.docs[1] = "failed" /\ outcomes.docs[2] = "ok"
    /\ RecordsOfFiling(2) /= {}
    /\ RecordsOfFiling(2) \subseteq store

\* C10: once the alarm of process_ticker_with_timeout has gone off for a ticker,
\* no further filing of the ticker is fetched or saved, and when the wrapper
\* returns the worker counts the ticker as timed out.
C10_TimeoutStopsProcessing ==
    [][(driver = "worker" /\ alarm = "fired") =>
          /\ store' = store
          /\ outcomes' = outcomes \/ outcomes' = NoOutcomes
          /\ pc' = "iter" => tally'.timeout = tally.timeout + 1]_vars

\* C18: when the locator returns no filing (none in range, or an index request
\* that failed), process_ticker comes to its end without raising and without
\* fetching a document, and from then until it has returned the store holds no
\* record of the ticker, whatever an earlier run had persisted.
C18_EmptyLocatorNormalCompletion ==
    [][/\ (pc = "pt_locate" /\ pc' /= "pt_locate" /\ filings' = <<>>) =>
             /\ pc' = "pt_done"
             /\ outcomes'.docs = <<>>
             /\ RowsOf(store', cur.ticker) = {}
       /\ (pc = "pt_done" /\ filings = <<>> /\ pc' /= "pt_done") =>
             /\ pc' \in {"idle", "iter"}
             /\ RowsOf(store', cur.ticker) = {}]_vars

C18_Witness ==
    /\ pc = "pt_done" /\ filings = <<>> /\ outcomes.index = "failed"
    /\ prevRun.ticker = cur.ticker /\ prevRun.rows /= {}
    /\ RowsOf(store, cur.ticker) = {}

C11_AbandonedProcessingStops ==
    [][\A k \in DOMAIN threads :
          (threads[k].abandoned /\ k \in DOMAIN threads') =>
              threads'[k] = threads[k]]_vars

\* The counters of the summary
Summary == tally.successful + tally.timeout + tally.failed

\* C12: the drivers take the tickers of their list one by one in the order of
\* the list, whatever became of the earlier ones (success, exception, timeout),
\* every pass of the loop counts its ticker once, and after the last pass the
\* three counters sum to the length of the list.
C12_BatchIsolationAndSummary ==
    (driver \in {"plain", "threaded"} /\ pc \in {"iter", "calling", "joining"}) =>
        /\ tally.attempted \o queue = input.tickers
        /\ Summary + (IF pc = "iter" THEN 0 ELSE 1) = Len(tally.attempted)
        /\ (pc = "iter" /\ queue = <<>>) => Summary = Len(input.tickers)

C12_Witness ==
    /\ driver = "threaded" /\ pc = "iter" /\ queue = <<>>
    /\ Len(input.tickers) = 2
    /\ tally.timeout = 1 /\ tally.failed = 1
    /\ \E k \in DOMAIN threads : threads[k].abandoned

---------------------------------------------------------------------------
(* Claims about one candidate entry, under ExtractSpec.                    *)

\* The places of the search of find_field_value where an element with text is
\* found: the position of the tag name in its list and of the namespace in the
\* order tried.
Hits(element, name) ==
    {h \in (DOMAIN field_mappings[name]) \X (DOMAIN ns_prefixes) :
        FindText(element, ns_prefixes[h[2]], field_mappings[name][h[1]]) \notin {None, ""}}

\* The text at the earliest place: earlier tag name first, then earlier namespace.
FirstText(element, name) ==
    LET H == Hits(element, name)
        h == CHOOSE x \in H : \A y \in H : x[1] < y[1] \/ (x[1] = y[1] /\ x[2] <= y[2])
    IN  FindText(element, ns_prefixes[h[2]], field_mappings[name][h[1]])

\* C21: the value found for a logical field is the first non-empty text met
\* when the tag names are tried in their listed order and, for each tag name,
\* the namespaces in their listed order (stripped of surrounding blanks, None
\* when there is no such text); a record returned for the entry carries that
\* value as its counterparty and, converted, as its notional amount.
C21_AliasPriority ==
    /\ pc = "found" =>
          output = <<IF Hits(input.element, input.field) = {} THEN None
                     ELSE Strip(FirstText(input.element, input.field))>>
    /\ (pc = "extracted" /\ output /= <<>>) =>
          /\ Hits(input.element, "counterparty_name") /= {}
          /\ output[1].counterparty_name = Strip(FirstText(input.element, "counterparty_name"))
          /\ Hits(input.element, "notional_amt") /= {}
          /\ output[1].notional_amt
                = clean_notional(Strip(FirstText(input.element, "notional_amt")))

C21_Witness ==
    /\ pc = "found" /\ input.field = "counterparty_name"
    /\ input.element.children = <<Child("nport", "ctrPtyName", "BANK B"),
                                  Child("com", "counterpartyName", "BANK C")>>
    /\ output = <<"BANK C">>

\* The number a numeric field is to hold for the source text s: s without
\* currency signs, thousands separators and percent signs as a float, and s
\* itself when that is no number.
NumericValue(s) ==
    LET clean_value == Remove(s, ",$%")
    IN  IF FloatOk(clean_value) THEN FloatOf(clean_value) ELSE Str(s)

\* C22: in a record returned for an entry, the notional amount and the spread
\* of the floating rate are both the float of their source text with ',', '$'
\* and '%' taken out, or the source text itself when that does not convert;
\* a spread attribute of the entry is never dropped.
C22_NumericNormalization ==
    (pc = "extracted" /\ output /= <<>>) =>
        /\ output[1].notional_amt
              = NumericValue(Strip(FirstText(input.element, "notional_amt")))
        /\ "floatingRtSpread" \in DOMAIN input.element.fpd[1] =>
              /\ "floating_rt_spread" \in DOMAIN output[1]
              /\ output[1].floating_rt_spread
                    = NumericValue(input.element.fpd[1].floatingRtSpread)

\* The rate index the entry names, "" when it names none.
SourceIndex(element) ==
    IF element.fpd /= <<>> /\ "floatingRtIndex" \in DOMAIN element.fpd[1]
    THEN element.fpd[1].floatingRtIndex ELSE ""

\* C23: a record returned for an entry has a floating_rt_index of the
\* allow-list; a rate index that is not empty and not in the list is replaced
\* by '1 month Sofr + spread', and the entry is returned exactly when it would
\* have been with a rate index of the list.
C23_AllowListNormalization ==
    pc = "extracted" =>
        /\ output /= <<>> => output[1].floating_rt_index \in valid_indices
        /\ SourceIndex(input.element) \notin valid_indices \cup {""} =>
              /\ output /= <<>> => output[1].floating_rt_index = "1 month Sofr + spread"
              /\ (output = <<>>)
                    = (extract_specific_swap_info(
                           impl, [input.element EXCEPT !.fpd[1].floatingRtIndex = "OBFR01"],
                           input.ticker, input.filing_url) = <<>>)

C23_Witness ==
    /\ pc = "extracted" /\ output /= <<>>
    /\ SourceIndex(input.element) = "LIBOR"
    /\ output[1].floating_rt_index = "1 month Sofr + spread"

---------------------------------------------------------------------------
(* Claims about the loops of process_ticker, under LoopSpec.               *)

\* The filings process_ticker_xml was called for, in the order of the calls
Processed == [k \in DOMAIN output |-> output[k].filing]

\* Whether a list of filings is in the order newest first.
NewestFirst(list) ==
    \A k \in 1..(Len(list) - 1) : DateVal(list[k].filing_date) >= DateVal(list[k + 1].filing_date)

\* C24: process_ticker_xml is called for the filings in the order of the list
\* the locator returned, which is newest first, each filing once; the calls of
\* one batch are consecutive, a batch has at most 5 of them, and the k-th
\* filing is in batch number (k - 1) \div 5 + 1; when process_ticker is at its
\* end every filing has been passed.
C24_EachFilingOnceInBatches ==
    pc \in {"range", "batch", "pt_done"} =>
        /\ NewestFirst(filings)
        /\ Len(Processed) <= Len(filings)
        /\ Processed = SubSeq(filings, 1, Len(Processed))
        /\ \A k \in DOMAIN output : output[k].batch = (k - 1) \div 5 + 1
        /\ \A b \in 1..Len(output) :
              Cardinality({k \in DOMAIN output : output[k].batch = b}) <= 5
        /\ pc = "pt_done" => Processed = filings

C24_Witness ==
    /\ pc = "pt_done" /\ Len(filings) = 6
    /\ output[5].batch = 1 /\ output[6].batch = 2
    /\ output[2].ended = "raised"

---------------------------------------------------------------------------
(* Further claims about the parser, under ParseSpec.                       *)

\* C26: every record returned for a document has the period of report, the
\* index name and the index identifier of the document (None for what the
\* document does not give), whatever the alias table found in the entry: a
\* document without designated index gives records without index name and
\* identifier.
C26_FilingLevelMetadata ==
    pc = "returned" =>
        \A k \in DOMAIN output :
            /\ output[k].period_of_report
                  = (IF input.doc.repPdEndDt \in {None, ""} THEN None
                     ELSE Strip(input.doc.repPdEndDt))
            /\ output[k].index_name
                  = (IF input.doc.varInfo.name = None THEN None
                     ELSE Strip(input.doc.varInfo.name))
            /\ output[k].index_identifier
                  = (IF input.doc.varInfo.id = None THEN None
                     ELSE Strip(input.doc.varInfo.id))
            /\ input.doc.varInfo = NoVarInfo =>
                  output[k].index_name = None /\ output[k].index_identifier = None

\* A record of a document without designated index, from an entry in which the
\* alias table finds an index name.
C26_Witness ==
    /\ pc = "returned" /\ impl = "manual" /\ Len(output) = 1
    /\ input.doc.varInfo = NoVarInfo /\ Len(input.doc.entries) = 1
    /\ find_field_value(field_mappings.index_name, input.doc.entries[1]) = "Tesla Inc"
    /\ output[1].index_name = None
    /\ output[1].period_of_report = "2024-03-31"

---------------------------------------------------------------------------
(* Further claims about the batch drivers, under BatchSpec.                *)

\* C27: in the worker with the thread timeout, the count and the list of the
\* failed tickers grow only in a pass in which clear_ticker_data raised in
\* main; a pass whose wrapper returned False, because the wait timed out or
\* because process_ticker raised in the thread, adds its ticker to the count
\* and the list of the timeouts and leaves those of the failures alone.
C27_FalseIsCountedAsTimeout ==
    [][driver = "threaded" =>
          LET ticker == tally'.attempted[Len(tally'.attempted)]
              failure == /\ tally'.failed = tally.failed + 1
                         /\ tally'.failed_list = Append(tally.failed_list, ticker)
                         /\ tally'.timeout = tally.timeout
                         /\ tally'.timeout_list = tally.timeout_list
              timeout == /\ tally'.timeout = tally.timeout + 1
                         /\ tally'.timeout_list = Append(tally.timeout_list, ticker)
                         /\ tally'.failed = tally.failed
                         /\ tally'.failed_list = tally.failed_list
              wrapper_false == /\ pc = "joining" /\ pc' = "iter"
                               /\ threads[Len(threads)].pc /= "pt_done"
          IN  /\ (pc' /= "idle" /\ tally'.failed /= tally.failed) =>
                    (ThreadedIterFails /\ failure)
              /\ wrapper_false => timeout]_vars

\* Both kinds of False have been counted: one ticker whose thread was given up
\* alive, one whose process_ticker raised in its thread.
C27_Witness ==
    /\ driver = "threaded" /\ pc = "iter"
    /\ tally.timeout = 2 /\ tally.failed = 0 /\ Len(tally.timeout_list) = 2
    /\ Len(threads) = 1 /\ threads[1].abandoned

---------------------------------------------------------------------------
(* Claims about the construction of an extractor, under DbSpec.            *)

\* C28: constructing an extractor resets the store: right after the
\* construction the tables swap_data and ticker_mappings hold no row of any
\* ticker, whatever the file held before, so nothing an earlier instance
\* persisted on the same path survives.
C28_ConstructionResetsStore ==
    pc = "constructed" =>
        /\ store.swap_data = {} /\ store.ticker_mappings = {}
        /\ \A t \in Tickers : /\ RowsOf(store.swap_data, t) = {}
                               /\ RowsOf(store.ticker_mappings, t) = {}

\* An instance has just been constructed on a file in which an earlier instance
\* left records of both tickers and a registration.
C28_Witness ==
    /\ pc = "constructed"
    /\ \A t \in Tickers : RowsOf(input.before.swap_data, t) /= {}
    /\ input.before.ticker_mappings /= {}
    /\ store.swap_data = {} /\ store.ticker_mappings = {}
---------------------------------------------------------------------------
(* Claims about the relational adapter, under AdapterSpec.                 *)

\* C29: the adapter is first-write-wins: insert_swap_data with a record whose
\* (ticker, filing_date, counterparty_name, notional_amt) is already that of a
\* row of the table leaves that row and the whole table unchanged.
C29_FirstWriteWins ==
    [][(/\ AdapterKeysPresent(input')
        /\ \E x \in store.swap_data : RowKey(x) = RowKey(RowAdapter(input', 0)))
       => store'.swap_data = store.swap_data]_vars
---------------------------------------------------------------------------
(* Further claims about one candidate entry, under ExtractSpec.            *)

\* Whether a tag name, lower-cased, contains one of the keywords.
TagHasKeyword(tag) ==
    \E k \in DOMAIN swap_indicators : Contains(Lower(tag), Lower(swap_indicators[k]))

\* C30: the keyword gate never rejects an entry found through a candidate path
\* whose tag name contains a keyword (derivativeInstrument, derivative): the
\* scanned text is the serialization of the entry with its own tag, so the entry
\* passes whatever its content.
C30_KeywordTagAlwaysPasses ==
    (/\ pc = "gated"
     /\ \E p \in DOMAIN investment_paths : investment_paths[p] = input.element.tag
     /\ TagHasKeyword(input.element.tag))
    => output = <<TRUE>>

\* An entry found by the path of derivativeInstrument with nothing inside it
\* that contains a keyword has passed the gate.
C30_Witness ==
    /\ pc = "gated"
    /\ input.element.tag = "derivativeInstrument"
    /\ input.element.children = <<Child("nport", "name", "Tesla Inc")>>
    /\ input.element.fpd = <<>>
    /\ \A k \in DOMAIN swap_indicators :
          ~Contains(Lower(tostring_inner(input.element)), Lower(swap_indicators[k]))
    /\ output = <<TRUE>>

====
